---- MODULE Spec2Model ----
(***************************************************************************)
(* python-divelog: the Uwatec Smart protocol driver (SmartDriver), the     *)
(* dive computer it talks to over the IrDA socket, and the download flow    *)
(* of qdcxfer (TransferWorker.start, TransferPanel).                       *)
(*                                                                         *)
(* Python values are represented as follows: a str of bytes is a sequence  *)
(* of integers 0..255, a str of decimal digits (a token) is a sequence of  *)
(* digits 0..9, None is NoneInt for an integer field, NoneStr for a str    *)
(* field and the string "None" for a name.                                 *)
(***************************************************************************)
EXTENDS Integers, Sequences, FiniteSets, TLC

VARIABLES
    \* the dive computer (device side of the link)
    devTicks,     \* the device clock, in half-second ticks
    devLog,       \* timestamps (ticks) of the dives in the device's log
    devBuf,       \* the bytes the device streams in answer to the transfer opcode
    eof,          \* the link was closed by the peer: every recv returns ''
    \* SmartDriver instance
    _socket,      \* self._socket: "unconnected", "connected" or "None"
    _addr,        \* self._addr
    _model,       \* self._model
    _parser,      \* self._parser
    _serial,      \* self._serial
    _ticks,       \* self._ticks
    _token,       \* self._token
    \* SmartDriver.transfer while it runs
    tpc,          \* "idle", "recv" (the receive loop) or "split" (the framing loop)
    progressObj,  \* the progressObj argument: "None" or "Reporter"
    num,          \* num: the bytes still outstanding
    data,         \* data: the bytes received so far
    \* what the last call did (observations)
    ret,          \* [op, exc]: the last method called and the exception it raised
    retCount,     \* the value get_bytecount returned
    retToken,     \* the value issue_token returned
    retDives,     \* the list transfer returned
    sent,         \* the commands the last call sent on the socket, in order
    hsReply,      \* the two handshake replies <<r1, r2>> connect received
    tickReply,    \* the tick count the device sent when connect asked for it
    xn,           \* the byte count transfer got from get_bytecount
    nb,           \* the count the device echoed after the transfer opcode
    request,      \* the size asked of the last recv of the receive loop
    got,          \* the number of bytes that recv returned
    reported,     \* the values passed to progressObj.update after the last recv
    framed,       \* the framing loop of transfer was reached in the last call
    closes,       \* the calls of self._socket.close() the last call made
    \* qdcxfer: the DiveComputer row, the SQLAlchemy session, the worker
    dbToken,      \* computers.token as committed in the logbook file
    dbDives,      \* timestamps of the dives committed in the logbook file
    dcToken,      \* self._dc.token of the loaded DiveComputer object
    sessNew,      \* timestamps of the Dive objects pending in the session
    uiEnabled,    \* the panel's buttons are enabled
    wpc,          \* position of TransferWorker.start
    driverOk,     \* the driver class was loaded (d, dopts, driver are bound)
    parserOk,     \* the parser class was loaded (parser, adapter_cls are bound)
    devs,         \* the devices of driver.discover() not yet tried
    drvFound,     \* drv is not None
    wDives,       \* _dives: the blobs still to parse
    nbytes,       \* nbytes: the value get_bytecount returned to the worker
    wToken,       \* token: the value issue_token returned to the worker
    runSent,      \* timestamps of the dives the device streamed in this run
    nParsed,      \* calls of parser.parse in this run
    \* AladinTec2G.parse called on its own
    ppc,          \* "idle", "called" (parse was given pdata) or "done"
    pdata,        \* the data argument of parse
    pres,         \* what parse did: the exception raised, the dive returned
    pstate,       \* self._state of the parser object
    pcalls,       \* the calls of parse made on the parser object
    \* a method of the parser or the adapter called on its own
    fpc,          \* "idle", "called" or "done"
    fin,          \* its arguments
    fout,         \* what it returned
    \* the framing loop of SmartDriver.transfer run pass by pass
    _pos,         \* _pos
    dives         \* dives

devVars  == <<devTicks, devLog, devBuf, eof>>
drvVars  == <<_socket, _addr, _model, _parser, _serial, _ticks, _token>>
xferVars == <<tpc, progressObj, num, data>>
obsVars  == <<ret, retCount, retToken, retDives, sent, hsReply, tickReply, xn, nb,
              request, got, reported, framed, closes>>
hostVars == <<dbToken, dbDives, dcToken, sessNew, uiEnabled, wpc, driverOk, parserOk,
              devs, drvFound, nbytes, wDives, wToken, runSent, nParsed>>
splitVars == <<_pos, dives>>
parseVars == <<ppc, pdata, pres, pstate, pcalls, fpc, fin, fout, splitVars>>
vars     == <<devVars, drvVars, xferVars, obsVars, hostVars, parseVars>>

----------------------------------------------------------------------------
(* Bounds of the model *)

\* the device clock at the start
TickStart == 254
\* the device clock advances at most this far past TickStart
MaxTicks == 2
\* the device logs at most this many dives
MaxDives == 2
\* the length in bytes of one dive record as the device frames it
DiveLen == 12
\* a received buffer is made of at most this many pieces (frames or debris)
MaxPieces == 3
\* a synthetic frame carries at most this many payload bytes
MaxPayload == 2
\* a synthetic profile is made of at most this many pieces (records or debris)
MaxRecords == 3

----------------------------------------------------------------------------
(* Python values *)

NoneInt == -1
NoneStr == <<-1>>

Min(a, b) == IF a < b THEN a ELSE b

\* struct.pack('<L', n)
PackL(n) ==
    <<n % 256, (n \div 256) % 256, (n \div 65536) % 256, (n \div 16777216) % 256>>

\* struct.unpack_from('<L', s, off)[0], off counted from 0
UnpackL(s, off) ==
    s[off + 1] + 256 * s[off + 2] + 65536 * s[off + 3] + 16777216 * s[off + 4]

\* "%d" % n for n >= 0: the decimal digits of n
RECURSIVE FormatD(_)
FormatD(n) == IF n < 10 THEN <<n>> ELSE Append(FormatD(n \div 10), n % 10)

\* long(s) for a str of decimal digits
RECURSIVE Long(_)
Long(s) ==
    IF Len(s) = 1 THEN s[1] ELSE 10 * Long(SubSeq(s, 1, Len(s) - 1)) + s[Len(s)]

\* x or 0 for a token str: None and '' are false
OrZero(t) == IF t = NoneStr \/ t = <<>> THEN <<0>> ELSE t

\* data[a:b], a and b counted from 0
Slice(s, a, b) == SubSeq(s, a + 1, Min(b, Len(s)))

Zeros(n) == [i \in 1..n |-> 0]

----------------------------------------------------------------------------
(* SmartDriver: class constants *)

CHUNK_SIZE == 16

MODELS == <<
    [name |-> "Smart Pro",     id |-> 16, parser |-> "None"],
    [name |-> "Galileo Sol",   id |-> 17, parser |-> "None"],
    [name |-> "Aladin Tec",    id |-> 18, parser |-> "None"],
    [name |-> "Aladin Tec 2G", id |-> 19, parser |-> "AladinTec2G"],
    [name |-> "Smart Com",     id |-> 20, parser |-> "None"],
    [name |-> "Smart Tec",     id |-> 24, parser |-> "None"],
    [name |-> "Smart Z",       id |-> 28, parser |-> "None"] >>

\* the handshake commands and the identification commands of connect
CmdProbe  == <<27>>
CmdHello  == <<28, 16, 39, 0, 0>>
CmdModel  == <<16>>
CmdSerial == <<20>>
CmdTicks  == <<26>>
\* the suffix of the byte count and transfer commands
CmdSuffix == <<16, 39, 0, 0>>
OpCount    == 198
OpTransfer == 196
\* the marker in front of every dive record
_hdr == <<165, 165, 90, 90>>

----------------------------------------------------------------------------
(* The dive computer at the other end of the socket.  It keeps a clock and *)
(* a log of dives; asked with a token it answers for "all dives logged     *)
(* past the currently-set token".                                          *)

\* the serial number the device at an address reports
DevSerial(a) == IF a = "dc" THEN 66051 ELSE 66052

\* one dive as the device frames it: marker, total length, timestamp, rest
DiveFrame(ts) == _hdr \o PackL(DiveLen) \o PackL(ts) \o Zeros(DiveLen - 12)

\* the dives logged past token t
DevDivesAfter(t) == {ts \in devLog : ts > t}

\* the frames of a set of dives, oldest first
RECURSIVE DevData(_)
DevData(S) ==
    IF S = {} THEN <<>>
    ELSE LET m == CHOOSE x \in S : \A y \in S : x <= y
         IN  DiveFrame(m) \o DevData(S \ {m})

\* the token a byte count or transfer command carries
CmdToken(cmd) == UnpackL(cmd, 1)

\* what the link can do to the stream: deliver it, or damage the last record
Faults == {"none", "badmagic", "zerolen", "longlen"}

Corrupt(buf, f) ==
    LET p == Len(buf) - DiveLen
    IN  IF f = "none" \/ Len(buf) = 0 THEN buf
        ELSE IF f = "badmagic" THEN [buf EXCEPT ![p + 2] = 0]
        ELSE IF f = "zerolen" THEN [buf EXCEPT ![p + 5] = 0]
        ELSE [buf EXCEPT ![p + 5] = @ + 1]

\* the outcome of one _sendcmd on a connected socket: the reply arrives ("ok"),
\* recv returns '' because the peer closed the link ("closed"), or recv times out
RecvStatuses == IF eof THEN {"closed"} ELSE {"ok", "closed", "timeout"}

\* the outcome of one _sendcmd of a method other than connect
SendStatuses ==
    IF _socket = "None" THEN {"AttributeError"}
    ELSE IF _socket = "unconnected" THEN {"socket.error"}
    ELSE RecvStatuses

\* the exception a failed _sendcmd plus struct.unpack raises
SendExc(st) == IF st = "closed" THEN "struct.error"
               ELSE IF st = "timeout" THEN "socket.timeout" ELSE st

----------------------------------------------------------------------------
(* SmartDriver *)

\* what a call leaves of the observations of the call before it: nothing, but
\* for the ones (named in set) it records itself
Forget(set) ==
    LET S == {set[i] : i \in 1..Len(set)}
    IN  /\ "ret" \in S \/ ret' = [op |-> "none", exc |-> "none"]
        /\ "retCount" \in S \/ retCount' = 0
        /\ "retToken" \in S \/ retToken' = NoneStr
        /\ "retDives" \in S \/ retDives' = <<>>
        /\ "sent" \in S \/ sent' = <<>>
        /\ "hsReply" \in S \/ hsReply' = <<>>
        /\ "xn" \in S \/ xn' = 0
        /\ "nb" \in S \/ nb' = NoneInt
        /\ "request" \in S \/ request' = 0
        /\ "got" \in S \/ got' = 0
        /\ "reported" \in S \/ reported' = <<>>
        /\ "framed" \in S \/ framed' = FALSE
        /\ "closes" \in S \/ closes' = 0

\* __init__
DriverInit ==
    /\ _socket = "unconnected"
    /\ _addr = "None"
    /\ _model = "None"
    /\ _parser = "None"
    /\ _serial = NoneInt
    /\ _ticks = NoneInt
    /\ _token = NoneInt

\* the name and the parser connect finds for a model id
RECURSIVE FindModel(_, _)
FindModel(model_id, i) ==
    IF i > Len(MODELS)
    THEN [name |-> "Uwatec Smart Device (id:" \o ToString(model_id) \o ")",
          parser |-> "None"]
    ELSE IF model_id = MODELS[i].id
         THEN [name |-> MODELS[i].name, parser |-> MODELS[i].parser]
         ELSE FindModel(model_id, i + 1)

\* the commands of connect in the order it sends them
ConnectCmds == <<CmdProbe, CmdHello, CmdModel, CmdSerial, CmdTicks>>

\* the model ids a device may report
ModelIds == {19, 64}

\* the replies the five commands of connect can get: rs[i] is "ok" (the expected
\* reply), "nak" (another byte, handshake only), "closed" or "timeout"
ConnectScripts ==
    {rs \in [1..5 -> {"ok", "nak", "closed", "timeout"}] :
        /\ \A i \in 3..5 : rs[i] # "nak"
        /\ \A i \in 1..4 : rs[i] = "closed" => rs[i + 1] = "closed"}

\* the bytes of a handshake reply
HsBytes(st) == IF st = "ok" THEN <<1>> ELSE IF st = "nak" THEN <<0>> ELSE <<>>

\* a check that lets the handshake pass when one of the two replies is 0x01
HandshakeFailedBoth(r1, r2) == (r1 # <<1>>) /\ (r2 # <<1>>)

\* the check of the two handshake replies r1 and r2
HandshakeFailed(r1, r2) == (r1 # <<1>>) \/ (r2 # <<1>>)

\* the reply to the tick count command read as one unsigned byte
UnpackTicksB(reply) == reply[1]

\* struct.unpack('<L', ...) of the reply to the tick count command
UnpackTicks(reply) == UnpackL(reply, 0)

\* connect from the handshake on, with the replies rs and the model id mid of the
\* device: the exception raised, the number of commands sent, the fields set
Handshake(rs, mid, dev) ==
    LET keep == [serial |-> _serial, ticks |-> _ticks, model |-> _model,
                 parser |-> _parser, hs |-> <<>>, told |-> tickReply]
        hs   == <<HsBytes(rs[1]), HsBytes(rs[2])>>
        m    == FindModel(mid, 1)
    IN  IF rs[1] = "timeout"
        THEN keep @@ [exc |-> "socket.timeout", n |-> 1]
        ELSE IF rs[2] = "timeout"
        THEN keep @@ [exc |-> "socket.timeout", n |-> 2]
        ELSE IF HandshakeFailed(hs[1], hs[2])
        THEN [keep EXCEPT !.hs = hs] @@ [exc |-> "IOError", n |-> 2]
        ELSE IF rs[3] # "ok"
        THEN [keep EXCEPT !.hs = hs] @@ [exc |-> SendExc(rs[3]), n |-> 3]
        ELSE IF rs[4] # "ok"
        THEN [keep EXCEPT !.hs = hs] @@ [exc |-> SendExc(rs[4]), n |-> 4]
        ELSE IF rs[5] # "ok"
        THEN [keep EXCEPT !.hs = hs, !.serial = UnpackL(PackL(DevSerial(dev.addr)), 0)]
             @@ [exc |-> SendExc(rs[5]), n |-> 5]
        ELSE [serial |-> UnpackL(PackL(DevSerial(dev.addr)), 0),
              ticks  |-> UnpackTicks(PackL(devTicks)),
              model  |-> m.name, parser |-> m.parser, hs |-> hs, told |-> devTicks,
              exc |-> "none", n |-> 5]

\* the outcomes of connect once the socket is connected; closed tells whether the
\* peer closed the link during one of the commands sent
Handshakes(dev) ==
    {LET r == Handshake(rs, mid, dev)
     IN  r @@ [closed |-> \E i \in 1..r.n : rs[i] = "closed"] :
        rs \in {x \in ConnectScripts : eof => x[1] = "closed"}, mid \in ModelIds}

\* connect(device)
connect(device) ==
    /\ tpc = "idle"
    /\ UNCHANGED <<_token, xferVars, devBuf>>
    /\ Forget(<<"ret", "sent", "hsReply">>)
    /\ IF "addr" \notin DOMAIN device
       THEN /\ ret' = [op |-> "connect", exc |-> "KeyError"]
            /\ sent' = <<>>
            /\ hsReply' = <<>>
            /\ UNCHANGED <<_socket, _addr, _model, _parser, _serial, _ticks, eof,
                           tickReply>>
       ELSE /\ _addr' = device.addr
            /\ IF _socket # "unconnected"
               THEN \* no socket any more, or a socket that is connected already
                    /\ ret' = [op |-> "connect",
                               exc |-> IF _socket = "None" THEN "AttributeError"
                                       ELSE "socket.error"]
                    /\ sent' = <<>>
                    /\ hsReply' = <<>>
                    /\ UNCHANGED <<_socket, _model, _parser, _serial, _ticks, eof,
                                   tickReply>>
               ELSE \/ \* the device cannot be reached
                       /\ ret' = [op |-> "connect", exc |-> "socket.error"]
                       /\ sent' = <<>>
                       /\ hsReply' = <<>>
                       /\ UNCHANGED <<_socket, _model, _parser, _serial, _ticks, eof,
                                      tickReply>>
                    \/ \E r \in Handshakes(device) :
                         /\ _socket' = "connected"
                         /\ ret' = [op |-> "connect", exc |-> r.exc]
                         /\ sent' = SubSeq(ConnectCmds, 1, r.n)
                         /\ hsReply' = r.hs
                         /\ _serial' = r.serial
                         /\ _ticks' = r.ticks
                         /\ tickReply' = r.told
                         /\ _model' = r.model
                         /\ _parser' = r.parser
                         /\ eof' = r.closed

\* a disconnect that closes the socket without asking whether there is one
disconnect_unguarded ==
    /\ tpc = "idle"
    /\ IF _socket # "None"
       THEN /\ closes' = 1 /\ _socket' = "None" /\ _addr' = "None"
            /\ ret' = [op |-> "disconnect", exc |-> "none"]
       ELSE /\ closes' = 0 /\ UNCHANGED <<_socket, _addr>>
            /\ ret' = [op |-> "disconnect", exc |-> "AttributeError"]
    /\ sent' = <<>>
    /\ Forget(<<"ret", "sent", "closes">>)
    /\ UNCHANGED <<_model, _parser, _serial, _ticks, _token, xferVars, devBuf, eof,
                   tickReply>>

\* disconnect()
disconnect ==
    /\ tpc = "idle"
    /\ IF _socket # "None"
       THEN closes' = 1 /\ _socket' = "None" /\ _addr' = "None"
       ELSE closes' = 0 /\ UNCHANGED <<_socket, _addr>>
    /\ ret' = [op |-> "disconnect", exc |-> "none"]
    /\ sent' = <<>>
    /\ Forget(<<"ret", "sent", "closes">>)
    /\ UNCHANGED <<_model, _parser, _serial, _ticks, _token, xferVars, devBuf, eof,
                   tickReply>>

\* self._token or 0
TokenOrZero == IF _token = NoneInt \/ _token = 0 THEN 0 ELSE _token

\* the byte count command and the transfer command
CountCmd    == <<OpCount>> \o PackL(TokenOrZero) \o CmdSuffix
TransferCmd == <<OpTransfer>> \o PackL(TokenOrZero) \o CmdSuffix

\* the device's reply to the byte count command
DevCountReply(cmd) == PackL(Len(DevData(DevDivesAfter(CmdToken(cmd)))))

\* a get_bytecount that takes the tick count for the current token
get_bytecount_advancing ==
    /\ tpc = "idle"
    /\ \E st \in SendStatuses :
         /\ ret' = [op |-> "get_bytecount", exc |-> IF st = "ok" THEN "none" ELSE SendExc(st)]
         /\ sent' = IF st \in {"AttributeError", "socket.error"} THEN <<>> ELSE <<CountCmd>>
         /\ retCount' = IF st = "ok" THEN UnpackL(DevCountReply(CountCmd), 0) ELSE 0
         /\ eof' = (eof \/ st = "closed")
         /\ _token' = IF st = "ok" THEN _ticks ELSE _token
    /\ Forget(<<"ret", "sent", "retCount">>)
    /\ UNCHANGED <<_socket, _addr, _model, _parser, _serial, _ticks, xferVars, devBuf,
                   tickReply>>

\* get_bytecount()
get_bytecount ==
    /\ tpc = "idle"
    /\ \E st \in SendStatuses :
         /\ ret' = [op |-> "get_bytecount", exc |-> IF st = "ok" THEN "none" ELSE SendExc(st)]
         /\ sent' = IF st \in {"AttributeError", "socket.error"} THEN <<>> ELSE <<CountCmd>>
         /\ retCount' = IF st = "ok" THEN UnpackL(DevCountReply(CountCmd), 0) ELSE 0
         /\ eof' = (eof \/ st = "closed")
    /\ Forget(<<"ret", "sent", "retCount">>)
    /\ UNCHANGED <<drvVars, xferVars, devBuf, tickReply>>

\* an issue_token that returns the current token in place of the tick count
issue_token_current ==
    /\ tpc = "idle"
    /\ IF _ticks = NoneInt
       THEN ret' = [op |-> "issue_token", exc |-> "TypeError"] /\ retToken' = NoneStr
       ELSE ret' = [op |-> "issue_token", exc |-> "none"] /\ retToken' = FormatD(TokenOrZero)
    /\ sent' = <<>>
    /\ Forget(<<"ret", "sent", "retToken">>)
    /\ UNCHANGED <<drvVars, xferVars, devBuf, eof, tickReply>>

\* issue_token()
issue_token ==
    /\ tpc = "idle"
    /\ IF _ticks = NoneInt
       THEN ret' = [op |-> "issue_token", exc |-> "TypeError"] /\ retToken' = NoneStr
       ELSE ret' = [op |-> "issue_token", exc |-> "none"] /\ retToken' = FormatD(_ticks)
    /\ sent' = <<>>
    /\ Forget(<<"ret", "sent", "retToken">>)
    /\ UNCHANGED <<drvVars, xferVars, devBuf, eof, tickReply>>

\* set_token(token)
set_token(tok) ==
    /\ tpc = "idle"
    /\ _token' = Long(OrZero(tok))
    /\ ret' = [op |-> "set_token", exc |-> "none"]
    /\ sent' = <<>>
    /\ Forget(<<"ret", "sent">>)
    /\ UNCHANGED <<_socket, _addr, _model, _parser, _serial, _ticks, xferVars, devBuf,
                   eof, tickReply>>

\* hasattr(progressObj, 'update') and callable(progressObj.update): the Reporter
\* of TransferWorker has an update method and neither start nor finish
HasUpdate(po) == po = "Reporter"

\* struct.unpack_from('<L', data, _pos+4)[0] in the framing loop.  A length of
\* 2^31 or more does not fit the integers of the model; the loop only compares
\* it with 0 and with the bytes left, so any length past the end of the data
\* stands for it
FrameLen(d, pos) == IF d[pos + 8] >= 128 THEN Len(d) + 1 ELSE UnpackL(d, pos + 4)

\* a framing loop that returns the payloads without marker and length
RECURSIVE SplitDivesPayload(_, _, _)
SplitDivesPayload(d, pos, found) ==
    IF ~(pos < Len(d) - 4) THEN [exc |-> "none", dives |-> found]
    ELSE IF Slice(d, pos, pos + 4) # _hdr
    THEN [exc |-> "RuntimeError", dives |-> <<>>]
    ELSE IF pos + 8 > Len(d)
    THEN [exc |-> "struct.error", dives |-> <<>>]
    ELSE LET len == FrameLen(d, pos)
         IN  IF len <= 0 THEN [exc |-> "RuntimeError", dives |-> <<>>]
             ELSE IF pos + len > Len(d) THEN [exc |-> "RuntimeError", dives |-> <<>>]
             ELSE SplitDivesPayload(d, pos + len,
                                    Append(found, Slice(d, pos + 8, pos + len)))

\* a pass of the framing loop that takes a frame of any length
FramePassAny(d, pos) ==
    IF Slice(d, pos, pos + 4) # _hdr THEN [exc |-> "RuntimeError", len |-> 0]
    ELSE IF pos + 8 > Len(d) THEN [exc |-> "struct.error", len |-> 0]
    ELSE LET len == FrameLen(d, pos)
         IN  IF pos + len > Len(d) THEN [exc |-> "RuntimeError", len |-> 0]
             ELSE [exc |-> "none", len |-> len]

\* the condition of the framing loop
KeepsOn(d, pos) == pos < Len(d) - 4

\* one pass of the framing loop at offset pos: the exception raised, _len
FramePass(d, pos) ==
    IF Slice(d, pos, pos + 4) # _hdr THEN [exc |-> "RuntimeError", len |-> 0]
    ELSE IF pos + 8 > Len(d) THEN [exc |-> "struct.error", len |-> 0]
    ELSE LET len == FrameLen(d, pos)
         IN  IF len <= 0 THEN [exc |-> "RuntimeError", len |-> 0]
             ELSE IF pos + len > Len(d) THEN [exc |-> "RuntimeError", len |-> 0]
             ELSE [exc |-> "none", len |-> len]

\* the framing loop of transfer from offset pos on, with the dives found so far
RECURSIVE SplitDives(_, _, _)
SplitDives(d, pos, found) ==
    IF ~KeepsOn(d, pos) THEN [exc |-> "none", dives |-> found]
    ELSE LET f == FramePass(d, pos)
         IN  IF f.exc # "none" THEN [exc |-> f.exc, dives |-> <<>>]
             ELSE SplitDives(d, pos + f.len, Append(found, Slice(d, pos, pos + f.len)))

\* a test for nothing to transfer that no count passes
NothingNewNever(n) == n < 0

\* num == 0: there is nothing to transfer
NothingNew(n) == n = 0

\* a check of the echoed count against num without the 4 bytes of the count
EchoMatchesBare(nbEcho, n) == nbEcho = n

\* the check of the count nbEcho echoed after the transfer opcode against num
EchoMatches(nbEcho, n) == nbEcho = n + 4

\* the counts the device may echo after the transfer opcode for n bytes of dives
DevEchoes(n) == {n + 4, n}

\* transfer(progressObj), up to the receive loop: the byte count query, the
\* transfer command and the check of the echoed count
transfer_begin(po) ==
    /\ tpc = "idle"
    /\ progressObj' = po
    /\ Forget(<<"ret", "sent", "xn", "nb", "retDives">>)
    /\ UNCHANGED <<drvVars, tickReply>>
    /\ \E st \in SendStatuses :
         IF st # "ok"
         THEN \* get_bytecount raises
              /\ ret' = [op |-> "transfer", exc |-> SendExc(st)]
              /\ sent' = IF st \in {"AttributeError", "socket.error"} THEN <<>>
                         ELSE <<CountCmd>>
              /\ eof' = (eof \/ st = "closed")
              /\ xn' = 0 /\ nb' = NoneInt /\ retDives' = <<>>
              /\ UNCHANGED <<tpc, num, data, devBuf>>
         ELSE LET n == UnpackL(DevCountReply(CountCmd), 0)
              IN  /\ xn' = n
                  /\ IF NothingNew(n)
                     THEN /\ ret' = [op |-> "transfer", exc |-> "none"]
                          /\ retDives' = <<>>
                          /\ sent' = <<CountCmd>>
                          /\ nb' = NoneInt
                          /\ UNCHANGED <<tpc, num, data, devBuf, eof>>
                     ELSE /\ sent' = <<CountCmd, TransferCmd>>
                          /\ \/ \E st2 \in RecvStatuses \ {"ok"} :
                                  \* no echoed count arrives
                                  /\ ret' = [op |-> "transfer", exc |-> SendExc(st2)]
                                  /\ eof' = (st2 = "closed")
                                  /\ retDives' = <<>>
                                  /\ nb' = NoneInt
                                  /\ UNCHANGED <<tpc, num, data, devBuf>>
                             \/ \E echo \in DevEchoes(n) :
                                  /\ nb' = UnpackL(PackL(echo), 0)
                                  /\ IF ~EchoMatches(UnpackL(PackL(echo), 0), n)
                                      THEN /\ ret' = [op |-> "transfer", exc |-> "RuntimeError"]
                                           /\ retDives' = <<>>
                                           /\ UNCHANGED <<tpc, num, data, devBuf, eof>>
                                      ELSE \E f \in Faults :
                                           /\ ret' = [op |-> "transfer", exc |-> "running"]
                                           /\ tpc' = IF n > 0 THEN "recv" ELSE "split"
                                           /\ num' = n
                                           /\ data' = <<>>
                                           /\ devBuf' = Corrupt(DevData(DevDivesAfter(
                                                            CmdToken(TransferCmd))), f)
                                           /\ retDives' = <<>>
                                           /\ UNCHANGED eof

\* a request of a full chunk whatever is outstanding
RecvSizeFull(n) == CHUNK_SIZE

\* the size transfer asks of recv when num bytes are outstanding
RecvSize(n) == IF n > CHUNK_SIZE THEN CHUNK_SIZE ELSE n

\* an update with the length of the chunk in place of the length of the buffer
UpdateCallsChunk(po, d, s) == IF HasUpdate(po) THEN <<Len(s)>> ELSE <<>>

\* the values passed to progressObj.update after the chunk s that made the buffer d
UpdateCalls(po, d, s) == IF HasUpdate(po) THEN <<Len(d)>> ELSE <<>>

\* the lengths recv(size) can return: up to size bytes, or '' when the peer closed
RecvLens(size) == IF eof THEN {0} ELSE {0, size} \cup {k \in {size \div 2} : k > 0}

\* transfer: one pass of the receive loop
transfer_recv ==
    /\ tpc = "recv"
    /\ UNCHANGED <<drvVars, progressObj, retCount, retToken, retDives, sent,
                   hsReply, tickReply, xn, nb, framed, closes>>
    /\ \/ \* recv times out
          /\ ~eof
          /\ ret' = [op |-> "transfer", exc |-> "socket.timeout"]
          /\ tpc' = "idle"
          /\ num' = 0 /\ data' = <<>> /\ devBuf' = <<>>
          /\ UNCHANGED <<eof, request, got, reported>>
       \/ \E k \in RecvLens(RecvSize(num)) :
            LET s == Slice(devBuf, Len(data), Len(data) + k)
            IN  /\ request' = RecvSize(num)
                /\ got' = Len(s)
                /\ eof' = (eof \/ k = 0)
                /\ num' = num - Len(s)
                /\ data' = data \o s
                /\ reported' = UpdateCalls(progressObj, data \o s, s)
                /\ tpc' = IF num - Len(s) > 0 THEN "recv" ELSE "split"
                /\ UNCHANGED <<ret, devBuf>>

\* transfer: the framing loop and the return
transfer_split ==
    /\ tpc = "split"
    /\ LET r == SplitDives(data, 0, <<>>)
       IN  /\ ret' = [op |-> "transfer", exc |-> r.exc]
           /\ retDives' = r.dives
    /\ framed' = TRUE
    /\ tpc' = "idle"
    /\ num' = 0 /\ data' = <<>> /\ devBuf' = <<>>
    /\ UNCHANGED <<drvVars, progressObj, eof, retCount, retToken, sent, hsReply,
                   tickReply, xn, nb, request, got, reported, closes>>

\* transfer: one pass of the framing loop, or the return when the loop is left
transfer_pass ==
    /\ tpc = "split"
    /\ IF KeepsOn(data, _pos) /\ FramePass(data, _pos).exc = "none"
       THEN /\ _pos' = _pos + FramePass(data, _pos).len
            /\ dives' = Append(dives, Slice(data, _pos, _pos + FramePass(data, _pos).len))
            /\ UNCHANGED <<ret, retDives, framed, tpc, num, data, devBuf>>
       ELSE /\ ret' = [op |-> "transfer",
                       exc |-> IF KeepsOn(data, _pos) THEN FramePass(data, _pos).exc
                               ELSE "none"]
            /\ retDives' = IF KeepsOn(data, _pos) THEN <<>> ELSE dives
            /\ framed' = TRUE
            /\ tpc' = "idle"
            /\ num' = 0 /\ data' = <<>> /\ devBuf' = <<>>
            /\ _pos' = 0 /\ dives' = <<>>
    /\ UNCHANGED <<drvVars, progressObj, eof, retCount, retToken, sent, hsReply,
                   tickReply, xn, nb, request, got, reported, closes>>

----------------------------------------------------------------------------
(* The device's own life *)

\* the device clock advances
Tick ==
    /\ devTicks < TickStart + MaxTicks
    /\ devTicks' = devTicks + 1
    /\ UNCHANGED <<devLog, devBuf, eof, drvVars, xferVars, obsVars, hostVars, parseVars>>

\* a dive is made and logged under the time it started at.  The device is not on
\* the link while it dives, and the dive starts later than any earlier reading of
\* the clock
LogDive ==
    /\ _socket # "connected"
    /\ devTicks < TickStart + MaxTicks
    /\ Cardinality(devLog) < MaxDives
    /\ devLog' = devLog \cup {devTicks + 1}
    /\ devTicks' = devTicks + 1
    /\ UNCHANGED <<devBuf, eof, drvVars, xferVars, obsVars, hostVars, parseVars>>

DevInit ==
    /\ devTicks = TickStart
    /\ devLog = {}
    /\ devBuf = <<>>
    /\ eof = FALSE

ObsInit ==
    /\ ret = [op |-> "__init__", exc |-> "none"]
    /\ retCount = 0
    /\ retToken = NoneStr
    /\ retDives = <<>>
    /\ sent = <<>>
    /\ hsReply = <<>>
    /\ tickReply = NoneInt
    /\ xn = 0
    /\ nb = NoneInt
    /\ request = 0
    /\ got = 0
    /\ reported = <<>>
    /\ framed = FALSE
    /\ closes = 0

XferInit ==
    /\ tpc = "idle"
    /\ progressObj = "None"
    /\ num = 0
    /\ data = <<>>

HostInit ==
    /\ dbToken = NoneStr
    /\ dbDives = {}
    /\ dcToken = NoneStr
    /\ sessNew = {}
    /\ uiEnabled = TRUE
    /\ wpc = "idle"
    /\ driverOk = FALSE
    /\ parserOk = FALSE
    /\ devs = <<>>
    /\ drvFound = FALSE
    /\ nbytes = 0
    /\ wDives = <<>>
    /\ wToken = NoneStr
    /\ runSent = {}
    /\ nParsed = 0

\* transfer before its framing loop: _pos = 0, dives = []
SplitInit == _pos = 0 /\ dives = <<>>

\* a parser object on which init_parser has not run has no _state
NoState == [absent |-> TRUE]

\* no method of the parser has been called on its own
FnInit == fpc = "idle" /\ fin = <<>> /\ fout = <<>>

\* parse has not been called
ParseIdle ==
    /\ ppc = "idle"
    /\ pdata = <<>>
    /\ pres = [exc |-> "none"]
    /\ pstate = NoState
    /\ pcalls = 0
    /\ SplitInit

ParseInit == ParseIdle /\ FnInit

Init == DevInit /\ DriverInit /\ XferInit /\ ObsInit /\ HostInit /\ ParseInit

----------------------------------------------------------------------------
(* SpecDriver: one SmartDriver instance under a caller that makes any call  *)
(* in any order, one at a time.                                            *)

\* the device dictionaries a caller may pass to connect
Devices == {[addr |-> "dc", name |-> "Aladin"], [name |-> "Galileo"]}

\* the tokens a caller may pass to set_token
TokenInputs == {NoneStr, <<>>, FormatD(TickStart), FormatD(TickStart + 1)}

DConnect      == \E dev \in Devices : connect(dev) /\ UNCHANGED <<devTicks, devLog, hostVars, parseVars>>
DDisconnect   == disconnect /\ UNCHANGED <<devTicks, devLog, hostVars, parseVars>>
DGetBytecount == get_bytecount /\ UNCHANGED <<devTicks, devLog, hostVars, parseVars>>
DIssueToken   == issue_token /\ UNCHANGED <<devTicks, devLog, hostVars, parseVars>>
DSetToken     == \E tok \in TokenInputs : set_token(tok) /\ UNCHANGED <<devTicks, devLog, hostVars, parseVars>>
DTransfer     == \E po \in {"None", "Reporter"} :
                     transfer_begin(po) /\ UNCHANGED <<devTicks, devLog, hostVars, parseVars>>
DTransferRecv  == transfer_recv /\ UNCHANGED <<devTicks, devLog, hostVars, parseVars>>
DTransferSplit == transfer_split /\ UNCHANGED <<devTicks, devLog, hostVars, parseVars>>

NextDriver ==
    \/ DConnect
    \/ DDisconnect
    \/ DGetBytecount
    \/ DIssueToken
    \/ DSetToken
    \/ DTransfer
    \/ DTransferRecv
    \/ DTransferSplit
    \/ Tick
    \/ LogDive

SpecDriver == Init /\ [][NextDriver]_vars

----------------------------------------------------------------------------
(* SpecFrames: the framing loop of SmartDriver.transfer on the buffers a    *)
(* device can have streamed: frames, and debris of frames.                  *)

\* a frame: marker, total length, payload of n bytes b
Frame(n, b) == _hdr \o PackL(8 + n) \o [i \in 1..n |-> b]

\* the frames with a payload; 165 is a byte of the marker
ValidFrames == {Frame(n, b) : n \in 1..MaxPayload, b \in {7, 165}}

\* what else a buffer can hold: a frame without payload, a frame whose length
\* field is 0, a frame with a damaged marker, a frame whose length field runs
\* past its end, four stray bytes, the first five bytes of a frame
Debris ==
    {_hdr \o PackL(8),
     _hdr \o PackL(0) \o <<7>>,
     <<165, 165, 90, 0>> \o PackL(9) \o <<7>>,
     _hdr \o PackL(9 + CHUNK_SIZE) \o <<7>>,
     <<0, 0, 0, 0>>,
     _hdr \o <<9>>}

\* the sequences of 1..n elements of S
SeqsUpTo(S, n) == UNION {[1..k -> S] : k \in 1..n}

\* the bytes of a sequence of pieces, in order
RECURSIVE Concat(_)
Concat(ps) == IF ps = <<>> THEN <<>> ELSE Head(ps) \o Concat(Tail(ps))

\* the buffers transfer may have received
Buffers == {Concat(ps) : ps \in SeqsUpTo(ValidFrames \cup Debris, MaxPieces)}

\* transfer at the head of its framing loop with a buffer of B received from a
\* device that connect identified
FramesInit(B) ==
    /\ \E buf \in B :
         /\ data = buf
         /\ devBuf = buf
         /\ xn = Len(buf)
         /\ nb = Len(buf) + 4
         /\ request = ((Len(buf) - 1) % CHUNK_SIZE) + 1
         /\ got = ((Len(buf) - 1) % CHUNK_SIZE) + 1
    /\ devTicks = TickStart /\ devLog = {} /\ eof = FALSE
    /\ _socket = "connected"
    /\ _addr = "dc"
    /\ _model = FindModel(19, 1).name
    /\ _parser = FindModel(19, 1).parser
    /\ _serial = DevSerial("dc")
    /\ _ticks = TickStart
    /\ _token = NoneInt
    /\ tpc = "split" /\ progressObj = "None" /\ num = 0
    /\ ret = [op |-> "transfer", exc |-> "running"]
    /\ retCount = 0 /\ retToken = NoneStr /\ retDives = <<>>
    /\ sent = <<CountCmd, TransferCmd>>
    /\ hsReply = <<>> /\ tickReply = TickStart
    /\ reported = <<>> /\ framed = FALSE /\ closes = 0
    /\ HostInit
    /\ ParseInit

InitFrames == FramesInit(Buffers)

NextFrames == DTransferSplit

SpecFrames == InitFrames /\ [][NextFrames]_vars

\* SpecSplit: the framing loop run pass by pass, by the thread that called
\* transfer, on the same buffers and on frames followed by fewer than 4 bytes

\* fewer than 4 bytes
Padding == {<<0>>, <<0, 0>>, <<0, 0, 0>>}

SplitBuffers ==
    Buffers \cup {Concat(ps) \o pad : ps \in SeqsUpTo(ValidFrames, MaxPieces - 1),
                                      pad \in Padding}

InitSplit == FramesInit(SplitBuffers)

DTransferPass ==
    transfer_pass /\ UNCHANGED <<devTicks, devLog, hostVars, ppc, pdata, pres, pstate,
                                 pcalls, fpc, fin, fout>>

NextSplit == DTransferPass

SpecSplit == InitSplit /\ [][NextSplit]_vars /\ WF_vars(NextSplit)

----------------------------------------------------------------------------
(* divelog.dc.parser.uwatec_smart: BaseSmartParser and AladinTec2G *)

\* 1 << n
RECURSIVE Shl1(_)
Shl1(n) == IF n = 0 THEN 1 ELSE 2 * Shl1(n - 1)

\* AladinTec2G.DTI_TABLE; entry i of the list is DTI_TABLE[i + 1]
DTI_TABLE == <<
    [name |-> "depth",  abs |-> FALSE, idx |-> 0, bits |-> 1, ignore_type_bits |-> FALSE, extra |-> 0],
    [name |-> "temp",   abs |-> FALSE, idx |-> 0, bits |-> 2, ignore_type_bits |-> FALSE, extra |-> 0],
    [name |-> "time",   abs |-> TRUE,  idx |-> 0, bits |-> 3, ignore_type_bits |-> FALSE, extra |-> 0],
    [name |-> "alarms", abs |-> TRUE,  idx |-> 0, bits |-> 4, ignore_type_bits |-> FALSE, extra |-> 0],
    [name |-> "depth",  abs |-> FALSE, idx |-> 0, bits |-> 5, ignore_type_bits |-> FALSE, extra |-> 1],
    [name |-> "temp",   abs |-> FALSE, idx |-> 0, bits |-> 6, ignore_type_bits |-> FALSE, extra |-> 1],
    [name |-> "depth",  abs |-> TRUE,  idx |-> 0, bits |-> 7, ignore_type_bits |-> TRUE,  extra |-> 2],
    [name |-> "temp",   abs |-> TRUE,  idx |-> 0, bits |-> 8, ignore_type_bits |-> FALSE, extra |-> 2],
    [name |-> "alarms", abs |-> TRUE,  idx |-> 1, bits |-> 9, ignore_type_bits |-> FALSE, extra |-> 0] >>

\* AladinTec2G.ALARM_TABLE
ALARM_TABLE == <<
    [idx |-> 0, mask |-> 2, name |-> "ascent"],
    [idx |-> 0, mask |-> 4, name |-> "bookmark"] >>

\* the number of 1 bits of a byte before its first 0 bit, from the top bit down
\* (the inner loop of smart_dti_identify from bit j on)
RECURSIVE LeadOnes(_, _)
LeadOnes(byte, j) ==
    IF j = 8 THEN 0
    ELSE IF (byte \div Shl1(7 - j)) % 2 = 0 THEN 0
    ELSE 1 + LeadOnes(byte, j + 1)

\* smart_dti_identify(data, offset) from byte i of the DTI on: the number of 1
\* bits before the first 0 bit, -1 when 16 bytes hold none; read_ushort raises
\* struct.error past the end of data
RECURSIVE smart_dti_identify(_, _, _)
smart_dti_identify(d, offset, i) ==
    IF i = 16 THEN [exc |-> "none", n |-> -1]
    ELSE IF offset + i >= Len(d) THEN [exc |-> "struct.error", n |-> 0]
    ELSE LET ones == LeadOnes(d[offset + i + 1], 0)
         IN  IF ones < 8 THEN [exc |-> "none", n |-> 8 * i + ones]
             ELSE smart_dti_identify(d, offset, i + 1)

\* An integer below 2^32 is held as its 32 bits, bit 0 first, where the code
\* works on its bits: the unsigned values from 2^31 on do not fit the integers
\* of the model.

\* 1 << k for the bits below the top one
Pow2 == [k \in 0..30 |-> Shl1(k)]

\* bit k of the integer n in two's complement
BitAt(n, k) == IF k = 31 THEN ((n \div Pow2[30]) \div 2) % 2 ELSE (n \div Pow2[k]) % 2

\* the bits of the integer n
Word(n) == [i \in 1..32 |-> BitAt(n, i - 1)]

\* a & b, a | b and the low 32 bits of ~a
And(a, b) == [i \in 1..32 |-> a[i] * b[i]]
Or(a, b)  == [i \in 1..32 |-> IF a[i] = 1 \/ b[i] = 1 THEN 1 ELSE 0]
Not(a)    == [i \in 1..32 |-> 1 - a[i]]

\* the value of bits 1..i of a word
RECURSIVE WordSum(_, _)
WordSum(word, i) == IF i = 0 THEN 0 ELSE word[i] * Pow2[i - 1] + WordSum(word, i - 1)

\* struct.unpack('<l', struct.pack('<L', word))[0]
Signed(word) ==
    IF word[32] = 1 THEN (WordSum(word, 31) - Pow2[30]) - Pow2[30] ELSE WordSum(word, 31)

\* a smart_fix_signbit that clears the bits above nbits whatever the sign bit
smart_fix_signbit_clear(value, nbits) ==
    IF nbits = 0 \/ nbits > 32 THEN Word(0)
    ELSE And(value, Not([i \in 1..32 |-> IF i > nbits THEN 1 ELSE 0]))

\* smart_fix_signbit(value, nbits) on the bits of value; value has no bit from
\* 32 on, so that of ~mask only the low 32 bits matter
smart_fix_signbit(value, nbits) ==
    IF nbits = 0 \/ nbits > 32 THEN Word(0)
    ELSE LET sgnbit == [i \in 1..32 |-> IF i = nbits THEN 1 ELSE 0]
             mask   == [i \in 1..32 |-> IF i > nbits THEN 1 ELSE 0]
         IN  IF And(value, sgnbit) = sgnbit
             THEN Or(value, mask)
             ELSE And(value, Not(mask))

\* process_dti: svalue, from the bits of value
FixSign(value, nbits) == Signed(smart_fix_signbit(value, nbits))

\* the loop of process_dti over the extra bytes
RECURSIVE ReadExtra(_, _, _, _)
ReadExtra(d, pos, k, value) ==
    IF k = 0 THEN value ELSE ReadExtra(d, pos + 1, k - 1, value * 256 + d[pos + 1])

\* a process_dti that reads the extra bytes and leaves cur_pos before them
AfterExtraStill(p, dti) == p

\* process_dti: cur_pos after the loop over the extra bytes
AfterExtra(p, dti) == p + dti.extra

\* process_dti(data, cur_pos, dti)
process_dti(d, cur_pos, dti) ==
    LET p1  == cur_pos + (dti.bits \div 8)
        n   == dti.bits % 8
        typ == n > 0 /\ ~dti.ignore_type_bits
        nb0 == IF typ THEN 8 - n ELSE 0
        p2  == IF n > 0 THEN p1 + 1 ELSE p1
    IN  IF n > 0 /\ p1 >= Len(d)
        THEN [exc |-> "struct.error", pos |-> p1, value |-> 0, svalue |-> 0]
        ELSE IF p2 + dti.extra > Len(d)
        THEN [exc |-> "ParseError", pos |-> p2, value |-> 0, svalue |-> 0]
        ELSE LET v0    == IF typ THEN d[p1 + 1] % Shl1(8 - n) ELSE 0
                 value == ReadExtra(d, p2, dti.extra, v0)
                 nbits == nb0 + 8 * dti.extra
             IN  [exc |-> "none", pos |-> AfterExtra(p2, dti), value |-> value,
                  svalue |-> FixSign(Word(value), nbits)]

\* init_parser: the new self._state
StateInit ==
    [time |-> 0, complete |-> 0, alarms |-> <<>>, cal |-> 0, depth |-> 0, temp |-> 0,
     has_depth |-> FALSE, has_temp |-> FALSE]

\* an init_parser that makes a state only for an object that has none
init_parser_once(st0) == IF st0 = NoState THEN StateInit ELSE st0

\* init_parser() on an object whose _state is st0
init_parser(st0) == StateInit

\* alarm_name(idx, mask, alarm_table) from entry i of the table on
RECURSIVE alarm_name(_, _, _)
alarm_name(idx, mask, i) ==
    IF i > Len(ALARM_TABLE) THEN "alarm" \o ToString(idx) \o "_" \o ToString(mask)
    ELSE IF ALARM_TABLE[i].idx = idx /\ ALARM_TABLE[i].mask = mask
         THEN ALARM_TABLE[i].name
         ELSE alarm_name(idx, mask, i + 1)

\* list.remove(a): the list without its first element equal to a
RECURSIVE Remove(_, _)
Remove(list, a) ==
    IF list = <<>> THEN <<>>
    ELSE IF Head(list) = a THEN Tail(list)
    ELSE <<Head(list)>> \o Remove(Tail(list), a)

\* update_alarms, the loop that clears: `for a in _a` over the list it removes
\* from, at position i of the iterator
RECURSIVE ClearAlarms(_, _, _, _)
ClearAlarms(list, i, idx, value) ==
    IF i > Len(list) THEN list
    ELSE IF list[i].idx = idx /\ (value \div list[i].mask) % 2 = 0
         THEN ClearAlarms(Remove(list, list[i]), i + 1, idx, value)
         ELSE ClearAlarms(list, i + 1, idx, value)

\* update_alarms, the loop that sets, from mask m on
RECURSIVE SetAlarms(_, _, _, _)
SetAlarms(list, idx, value, m) ==
    IF m > value THEN list
    ELSE SetAlarms(IF (value \div m) % 2 = 1
                   THEN Append(list, [idx |-> idx, mask |-> m,
                                      name |-> alarm_name(idx, m, 1)])
                   ELSE list,
                   idx, value, 2 * m)

\* update_alarms(idx, value, alarm_table) on the list of alarms
update_alarms(list, idx, value) ==
    SetAlarms(ClearAlarms(list, 1, idx, value), idx, value, 1)

\* a profile entry with every key, whatever the state has seen
EntryAll(st) ==
    [time   |-> st.time,
     has    |-> {"temp", "depth", "alarms"},
     temp   |-> st.temp,
     depth  |-> st.depth - st.cal,
     alarms |-> [i \in 1..Len(st.alarms) |-> st.alarms[i].name]]

\* the profile entry parse_dti makes of the state; has holds the keys of the
\* entry beside 'time'
Entry(st) ==
    [time   |-> st.time,
     has    |-> (IF st.has_temp THEN {"temp"} ELSE {})
                \cup (IF st.has_depth THEN {"depth"} ELSE {})
                \cup (IF Len(st.alarms) > 0 THEN {"alarms"} ELSE {}),
     temp   |-> IF st.has_temp THEN st.temp ELSE 0,
     depth  |-> IF st.has_depth THEN st.depth - st.cal ELSE 0,
     alarms |-> [i \in 1..Len(st.alarms) |-> st.alarms[i].name]]

\* a parse_dti that makes one entry where the loop makes all that are due
EmitOnce(st, profile) ==
    IF st.complete > 0
    THEN [st |-> [st EXCEPT !.time = @ + 4, !.complete = @ - 1],
          profile |-> Append(profile, Entry(st))]
    ELSE [st |-> st, profile |-> profile]

\* parse_dti: the loop `while self._state.complete > 0`
RECURSIVE Emit(_, _)
Emit(st, profile) ==
    IF st.complete > 0
    THEN Emit([st EXCEPT !.time = @ + 4, !.complete = @ - 1], Append(profile, Entry(st)))
    ELSE [st |-> st, profile |-> profile]

\* a parse_dti for which a record of any name but 'time' is one sample
CompleteEvery(dti, value, st) == IF dti.name = "time" THEN value ELSE 1

\* parse_dti: self._state.complete when the record has been applied
Complete(dti, value, st) ==
    IF dti.name = "depth" THEN 1
    ELSE IF dti.name = "time" THEN value
    ELSE st.complete

\* parse_dti(dti, value, svalue, profile, alarm_table) on the state st
parse_dti(dti, value, svalue, st, profile) ==
    LET st1 ==
          IF dti.name = "temp"
          THEN IF dti.abs
               THEN [st EXCEPT !.temp = value * 4, !.has_temp = TRUE]
               ELSE [st EXCEPT !.temp = @ + svalue * 4]
          ELSE IF dti.name = "depth"
          THEN IF dti.abs
               THEN [st EXCEPT !.depth = value * 2,
                               !.cal = IF st.cal = 0 THEN value * 2 ELSE @,
                               !.has_depth = TRUE]
               ELSE [st EXCEPT !.depth = @ + svalue * 2]
          ELSE IF dti.name = "alarms"
          THEN [st EXCEPT !.alarms = update_alarms(@, dti.idx, value)]
          ELSE st
    IN  Emit([st1 EXCEPT !.complete = Complete(dti, value, st)], profile)

\* self.DTI_TABLE[idx] of a Python list: a negative index counts from the end,
\* an index past the end raises IndexError
TableEntry(idx) ==
    IF idx >= Len(DTI_TABLE) \/ idx < 0 - Len(DTI_TABLE) THEN [exc |-> "IndexError"]
    ELSE IF idx < 0 THEN [exc |-> "none", at |-> Len(DTI_TABLE) + idx + 1]
    ELSE [exc |-> "none", at |-> idx + 1]

\* the test of parse_profile on the DTI index
InvalidIndex(idx) == idx > Len(DTI_TABLE)

\* parse_profile(data) from _pos on: the exception raised, the profile returned,
\* the entries appended to _profile so far (work), the value of _pos when the
\* loop was left (stop), self._state then (st), and for each record for which a
\* table entry was taken (selected) its offset pos, its DTI index idx, the
\* place at of the entry in DTI_TABLE, the value process_dti read, whether
\* parse_dti was reached (applied), and after it the length count of _profile,
\* the value next of _pos and self._state
RECURSIVE ProfileLoop(_, _, _, _, _)
ProfileLoop(d, pos, st, work, selected) ==
    IF ~(pos < Len(d))
    THEN [exc |-> "none", profile |-> work, work |-> work, stop |-> pos, st |-> st,
          selected |-> selected]
    ELSE LET id == smart_dti_identify(d, pos, 0)
             failed(e, sel) == [exc |-> e, profile |-> <<>>, work |-> work, stop |-> pos,
                                st |-> st, selected |-> sel]
         IN  IF id.exc # "none" THEN failed(id.exc, selected)
             ELSE IF InvalidIndex(id.n) THEN failed("ParseError", selected)
             ELSE LET te == TableEntry(id.n)
                  IN  IF te.exc # "none" THEN failed(te.exc, selected)
                      ELSE LET dti == DTI_TABLE[te.at]
                               r   == process_dti(d, pos, dti)
                               rec(n, q, s) == [idx |-> id.n, at |-> te.at, pos |-> pos,
                                                value |-> r.value,
                                                applied |-> r.exc = "none",
                                                count |-> n, next |-> q, st |-> s]
                           IN  IF r.exc # "none"
                               THEN failed(r.exc, Append(selected, rec(Len(work), pos, st)))
                               ELSE LET e == parse_dti(dti, r.value, r.svalue, st, work)
                                    IN  ProfileLoop(d, r.pos, e.st, e.profile,
                                                    Append(selected,
                                                           rec(Len(e.profile), r.pos, e.st)))

\* parse_profile(data) on an object whose _state is st
parse_profile(d, st) == ProfileLoop(d, 0, st, <<>>, <<>>)

\* the length of the dive header in front of the profile
HeaderLen == 116

\* a test of the length field that lets a blob longer than the field pass
LengthMismatchOver(d) == UnpackL(d, 4) > Len(d)

\* parse: the two tests on the blob
TooShort(d) == Len(d) < HeaderLen
LengthMismatch(d) == UnpackL(d, 4) # Len(d)

\* parse(data) on an object whose _state is st0: the exception raised, whether
\* the header fields were read (header) and parse_profile was called (decoded),
\* the tick count of dive['date'], dive['profile'], and work, stop, st and
\* selected of parse_profile
parse(st0, d) ==
    LET st == init_parser(st0)
        raised(e) == [exc |-> e, header |-> FALSE, decoded |-> FALSE, date |-> 0,
                      profile |-> <<>>, work |-> <<>>, stop |-> 0, st |-> st,
                      selected |-> <<>>]
    IN  IF TooShort(d) THEN raised("ParseError")
        ELSE IF LengthMismatch(d) THEN raised("ParseError")
        ELSE LET r == parse_profile(Slice(d, HeaderLen, Len(d)), st)
             IN  [exc |-> r.exc, header |-> TRUE, decoded |-> TRUE,
                  date |-> UnpackL(d, 8), profile |-> r.profile, work |-> r.work,
                  stop |-> r.stop, st |-> r.st, selected |-> r.selected]

----------------------------------------------------------------------------
(* SpecParser: AladinTec2G.parse on the blobs a transfer can have returned. *)

\* profile records: absolute depth 100 and 0, absolute temperature, time 0, 1
\* and 2, delta depth +2 and -1, delta temperature +1, the alarms of group 0
\* set to 'ascent', to 'ascent' and 'bookmark' and to none, the alarms of group
\* 1 set to mask 2
Records ==
    {<<252, 0, 100>>, <<252, 0, 0>>, <<254, 0, 5>>, <<192>>, <<193>>, <<194>>, <<2>>,
     <<127>>, <<129>>, <<226>>, <<230>>, <<224>>, <<255, 2>>}

\* what else a profile can hold: a DTI of nine and of ten 1 bits, a delta depth
\* record without its extra byte, the first byte of a DTI, sixteen bytes 0xFF
ProfileDebris ==
    {<<255, 128>>, <<255, 192>>, <<240>>, <<255>>, [i \in 1..16 |-> 255]}

\* the profiles parse_profile may be given: up to MaxRecords pieces, of which
\* all but the last are records
Profiles ==
    {<<>>} \cup {Concat(ps) \o t : ps \in {<<>>} \cup SeqsUpTo(Records, MaxRecords - 1),
                                   t \in Records \cup ProfileDebris}

\* a dive header whose length field is n
Header(n) == _hdr \o PackL(n) \o PackL(TickStart) \o Zeros(HeaderLen - 12)

\* a blob shorter than a header; a blob whose length field is not its length
OddBlobs ==
    {DiveFrame(TickStart), _hdr \o PackL(8),
     SubSeq(Header(HeaderLen - 1), 1, HeaderLen - 1)}
    \cup {Header(HeaderLen + Len(p) + k) \o p : p \in {<<>>, <<193>>, <<252, 0, 100>>},
                                                 k \in {-1, 1}}

\* parse is called with a blob
InitParser ==
    /\ DevInit /\ DriverInit /\ XferInit /\ ObsInit /\ HostInit
    /\ ppc = "called"
    /\ \/ \E p \in Profiles : pdata = Header(HeaderLen + Len(p)) \o p
       \/ pdata \in OddBlobs
    /\ pres = [exc |-> "none"]
    /\ pstate = NoState
    /\ pcalls = 0
    /\ FnInit
    /\ SplitInit

\* AladinTec2G.parse(data)
PParse ==
    /\ ppc = "called"
    /\ pres' = parse(pstate, pdata)
    /\ pstate' = pres'.st
    /\ pcalls' = pcalls + 1
    /\ ppc' = "done"
    /\ UNCHANGED <<pdata, fpc, fin, fout, splitVars, devVars, drvVars, xferVars, obsVars, hostVars>>

NextParser == PParse

SpecParser == InitParser /\ [][NextParser]_vars

----------------------------------------------------------------------------
(* SpecReuse: one parser object given one blob after another, as the worker *)
(* of qdcxfer does with the blobs of a transfer.                            *)

\* the calls of parse made on one object
MaxCalls == 2

\* the records of a blob given to a parser object
MaxReuse == 2

\* profile records: absolute depth, absolute temperature, time 1, alarm
\* 'ascent', delta depth +2, and the first byte of a DTI
ReuseRecords == {<<252, 0, 100>>, <<254, 0, 5>>, <<193>>, <<226>>, <<2>>, <<255>>}

\* the blobs the object may be given: a header with a profile, and a blob
\* shorter than a header
ReuseBlobs ==
    {Header(HeaderLen + Len(p)) \o p :
        p \in {<<>>} \cup {Concat(ps) : ps \in SeqsUpTo(ReuseRecords, MaxReuse)}}
    \cup {_hdr \o PackL(8)}

\* a new parser object is given its first blob
InitReuse ==
    /\ DevInit /\ DriverInit /\ XferInit /\ ObsInit /\ HostInit
    /\ ppc = "called"
    /\ pdata \in ReuseBlobs
    /\ pres = [exc |-> "none"]
    /\ pstate = NoState
    /\ pcalls = 0
    /\ FnInit
    /\ SplitInit

\* the caller gives the same object its next blob, whether the last call
\* returned or raised
PAgain ==
    /\ ppc = "done"
    /\ pcalls < MaxCalls
    /\ ppc' = "called"
    /\ pdata' \in ReuseBlobs
    /\ pres' = [exc |-> "none"]
    /\ UNCHANGED <<pstate, pcalls, fpc, fin, fout, splitVars, devVars, drvVars, xferVars, obsVars,
                   hostVars>>

NextReuse == PParse \/ PAgain

SpecReuse == InitReuse /\ [][NextReuse]_vars

----------------------------------------------------------------------------
(* SpecTicks: the date of a dive, from the tick count and the UTC offset of *)
(* its header.  A datetime is held as its distance in seconds from          *)
(* datetime(2000, 1, 1); an argument that may be None is <<>> for None and  *)
(* <<v>> for the value v.                                                   *)

\* a timedelta of one hour for each unit of the offset
UtcDeltaHours(utc_offset) == utc_offset * 60 * 60

\* smart_ticks_to_datetime: timedelta(seconds = utc_offset * 15 * 60)
UtcDelta(utc_offset) == utc_offset * 15 * 60

\* smart_ticks_to_datetime(ticks, utc_offset); `if utc_offset:` is false for
\* None and for 0
smart_ticks_to_datetime(ticks, utc_offset) ==
    LET td == ticks \div 2
    IN  IF utc_offset # <<>> /\ utc_offset[1] # 0
        THEN td + UtcDelta(utc_offset[1])
        ELSE td

\* read_datetime, given the tick count unpacked from the data
read_datetime(ticks) == smart_ticks_to_datetime(ticks, <<>>)

\* SmartAdapter.dive_datetime on a dive with these 'date' and 'utc_offset'
dive_datetime(date, utc_offset) ==
    date + 60 * 15 * (IF utc_offset = <<>> THEN 0 ELSE utc_offset[1])

\* the small tick counts tried
MaxTickCount == 7

\* tick counts: small ones, that of the device, and the largest the integers
\* of the model hold
TickCounts == 0..MaxTickCount \cup {TickStart, 2147483646, 2147483647}

\* read_sshort: the values of a signed byte
UtcOffsets == -128..127

\* the date of a header with these fields is asked for
InitTicks ==
    /\ DevInit /\ DriverInit /\ XferInit /\ ObsInit /\ HostInit /\ ParseIdle
    /\ fpc = "called"
    /\ fin \in [ticks : TickCounts, utc_offset : UtcOffsets]
    /\ fout = <<>>

\* dive['date'] as parse reads it (date), smart_ticks_to_datetime called with
\* the offset (direct) and with offset 0 (zero), SmartAdapter.dive_datetime
\* (adapter)
FDatetime ==
    /\ fpc = "called"
    /\ fout' = [date    |-> read_datetime(fin.ticks),
                direct  |-> smart_ticks_to_datetime(fin.ticks, <<fin.utc_offset>>),
                zero    |-> smart_ticks_to_datetime(fin.ticks, <<0>>),
                adapter |-> dive_datetime(read_datetime(fin.ticks), <<fin.utc_offset>>)]
    /\ fpc' = "done"
    /\ UNCHANGED <<fin, ppc, pdata, pres, pstate, pcalls, splitVars, devVars, drvVars,
                   xferVars, obsVars, hostVars>>

NextTicks == FDatetime

SpecTicks == InitTicks /\ [][NextTicks]_vars

----------------------------------------------------------------------------
(* SpecSign: the signed value process_dti makes of the nbits bits it read.  *)

\* the widths of which every value is tried
MaxWidth == 6

\* the widths of which the values at both ends and around 0 are tried: those
\* of the deltas and absolute values of DTI_TABLE, and the widest
WideWidths == {7, 10, 11, 16, 24, 31, 32}

\* the least and the greatest signed integer of w bits
Lo(w) == IF w = 32 THEN (0 - Shl1(30)) - Shl1(30) ELSE 0 - Shl1(w - 1)
Hi(w) == 0 - (Lo(w) + 1)

\* the low w bits of the signed integer v
Truncate(v, w) == And(Word(v), [i \in 1..32 |-> IF i <= w THEN 1 ELSE 0])

\* a width and a signed integer of that width
SignInputs ==
    {[w |-> w, v |-> v] : w \in 1..MaxWidth, v \in (0 - Shl1(MaxWidth - 1))..(Shl1(MaxWidth - 1) - 1)}
    \cup {[w |-> w, v |-> v] : w \in WideWidths, v \in -3..3}
    \cup {[w |-> w, v |-> Lo(w) + k] : w \in WideWidths, k \in 0..2}
    \cup {[w |-> w, v |-> Hi(w) - k] : w \in WideWidths, k \in 0..2}

\* process_dti has read the w bits of v
InitSign ==
    /\ DevInit /\ DriverInit /\ XferInit /\ ObsInit /\ HostInit /\ ParseIdle
    /\ fpc = "called"
    /\ fin \in {x \in SignInputs : Lo(x.w) <= x.v /\ x.v <= Hi(x.w)}
    /\ fout = <<>>

\* process_dti: svalue
FSign ==
    /\ fpc = "called"
    /\ fout' = [value |-> Truncate(fin.v, fin.w),
                svalue |-> FixSign(Truncate(fin.v, fin.w), fin.w)]
    /\ fpc' = "done"
    /\ UNCHANGED <<fin, ppc, pdata, pres, pstate, pcalls, splitVars, devVars, drvVars,
                   xferVars, obsVars, hostVars>>

NextSign == FSign

SpecSign == InitSign /\ [][NextSign]_vars

----------------------------------------------------------------------------
(* qdcxfer: TransferPanel (main thread) and TransferWorker.start (worker   *)
(* thread).  The worker's signals are queued to the main thread; of the    *)
(* slots they reach only _transferFinished touches the logbook.            *)

\* SmartDriver(): a new instance with a new socket
__init__ ==
    /\ _socket' = "unconnected"
    /\ _addr' = "None"
    /\ _model' = "None"
    /\ _parser' = "None"
    /\ _serial' = NoneInt
    /\ _ticks' = NoneInt
    /\ _token' = NoneInt
    /\ eof' = FALSE
    /\ tickReply' = NoneInt
    /\ Forget(<<"ret">>)
    /\ ret' = [op |-> "__init__", exc |-> "none"]

\* self._dc.serial: the serial number stored with the dive computer
DcSerial == FormatD(DevSerial("dc"))

\* the lists driver.discover() may return
DevLists == {<<>>,
             <<[addr |-> "dc", name |-> "Aladin"]>>,
             <<[addr |-> "other", name |-> "Smart"]>>,
             <<[addr |-> "other", name |-> "Smart"], [addr |-> "dc", name |-> "Aladin"]>>}

\* the timestamp of a dive blob (the field the parser reads at offset 8)
BlobTime(blob) == UnpackL(blob, 8)

\* an exception leaves the slot: start never emits finished
Dies == wpc' = "dead"

\* TransferPanel._btnTransferClicked
BtnTransferClicked ==
    /\ UNCHANGED parseVars
    /\ uiEnabled /\ wpc = "idle"
    /\ IF dcToken # dbToken \/ sessNew # {}
       THEN \* session.dirty: Logbook has no rollback method, the slot raises
            UNCHANGED <<uiEnabled, wpc>>
       ELSE uiEnabled' = FALSE /\ wpc' = "load"
    /\ UNCHANGED <<devVars, drvVars, xferVars, obsVars, dbToken, dbDives, dcToken,
                   sessNew, driverOk, parserOk, devs, drvFound, nbytes, wDives, wToken,
                   runSent, nParsed>>

\* start: load the driver, the parser and the adapter class
WLoad ==
    /\ UNCHANGED parseVars
    /\ wpc = "load"
    /\ \E d \in BOOLEAN, p \in BOOLEAN : driverOk' = d /\ parserOk' = p
    /\ wpc' = "discover"
    /\ drvFound' = FALSE /\ devs' = <<>> /\ nbytes' = 0 /\ wDives' = <<>>
    /\ wToken' = NoneStr /\ runSent' = {} /\ nParsed' = 0
    /\ UNCHANGED <<devVars, drvVars, xferVars, obsVars, dbToken, dbDives, dcToken,
                   sessNew, uiEnabled>>

\* start: devs = driver.discover()
WDiscover ==
    /\ UNCHANGED parseVars
    /\ wpc = "discover"
    /\ IF ~driverOk
       THEN Dies /\ UNCHANGED devs
       ELSE \/ Dies /\ UNCHANGED devs
            \/ \E l \in DevLists : devs' = l /\ wpc' = "new"
    /\ UNCHANGED <<devVars, drvVars, xferVars, obsVars, dbToken, dbDives, dcToken,
                   sessNew, uiEnabled, driverOk, parserOk, drvFound, nbytes, wDives,
                   wToken, runSent, nParsed>>

\* start: the head of the loop over devs, _drv = d['class'](*dopts)
WNewDriver ==
    /\ UNCHANGED parseVars
    /\ wpc = "new"
    /\ IF devs = <<>>
       THEN /\ wpc' = "set_token"
            /\ UNCHANGED <<drvVars, eof, obsVars>>
       ELSE /\ wpc' = "connect"
            /\ __init__
    /\ UNCHANGED <<devTicks, devLog, devBuf, xferVars, dbToken, dbDives, dcToken,
                   sessNew, uiEnabled, driverOk, parserOk, devs, drvFound, nbytes,
                   wDives, wToken, runSent, nParsed>>

\* start: _drv.connect(_dev) and the comparison of the serial numbers
WConnect ==
    /\ UNCHANGED parseVars
    /\ wpc = "connect"
    /\ connect(Head(devs))
    /\ IF ret'.exc # "none"
       THEN \* except: finished.emit(); return
            wpc' = "finished" /\ UNCHANGED <<devs, drvFound>>
       ELSE IF FormatD(_serial') = DcSerial
       THEN wpc' = "set_token" /\ drvFound' = TRUE /\ UNCHANGED devs
       ELSE wpc' = "other" /\ devs' = Tail(devs) /\ UNCHANGED drvFound
    /\ UNCHANGED <<devTicks, devLog, dbToken, dbDives, dcToken, sessNew, uiEnabled,
                   driverOk, parserOk, nbytes, wDives, wToken, runSent, nParsed>>

\* start: _drv.disconnect() of a device with another serial number
WDisconnectOther ==
    /\ UNCHANGED parseVars
    /\ wpc = "other"
    /\ disconnect
    /\ wpc' = "new"
    /\ UNCHANGED <<devTicks, devLog, dbToken, dbDives, dcToken, sessNew, uiEnabled,
                   driverOk, parserOk, devs, drvFound, nbytes, wDives, wToken, runSent,
                   nParsed>>

\* start: drv.set_token(self._dc.token)
WSetToken ==
    /\ UNCHANGED parseVars
    /\ wpc = "set_token"
    /\ IF ~drvFound
       THEN \* drv is None
            Dies /\ UNCHANGED <<devVars, drvVars, xferVars, obsVars>>
       ELSE set_token(dcToken) /\ wpc' = "get_bytecount" /\ UNCHANGED <<devTicks, devLog>>
    /\ UNCHANGED <<dbToken, dbDives, dcToken, sessNew, uiEnabled, driverOk, parserOk,
                   devs, drvFound, nbytes, wDives, wToken, runSent, nParsed>>

\* start: nbytes = drv.get_bytecount()
WGetBytecount ==
    /\ UNCHANGED parseVars
    /\ wpc = "get_bytecount"
    /\ get_bytecount
    /\ IF ret'.exc # "none"
       THEN Dies /\ UNCHANGED nbytes
       ELSE wpc' = "transfer" /\ nbytes' = retCount'
    /\ UNCHANGED <<devTicks, devLog, dbToken, dbDives, dcToken, sessNew, uiEnabled,
                   driverOk, parserOk, devs, drvFound, wDives, wToken, runSent, nParsed>>

\* start: where _dives = drv.transfer(...) leaves the worker
TransferReturns ==
    IF tpc' # "idle" THEN UNCHANGED <<wpc, wDives>>
    ELSE IF ret'.exc # "none" THEN Dies /\ UNCHANGED wDives
    ELSE wpc' = "issue_token" /\ wDives' = retDives'

\* start: _dives = drv.transfer(TransferWorker.Reporter(self)), the call
WTransfer ==
    /\ UNCHANGED parseVars
    /\ wpc = "transfer"
    /\ tpc = "idle"
    /\ transfer_begin("Reporter")
    /\ runSent' = IF tpc' # "idle" THEN DevDivesAfter(CmdToken(TransferCmd)) ELSE {}
    /\ TransferReturns
    /\ UNCHANGED <<devTicks, devLog, dbToken, dbDives, dcToken, sessNew, uiEnabled,
                   driverOk, parserOk, devs, drvFound, nbytes, wToken, nParsed>>

\* start: drv.transfer in its receive loop
WTransferRecv ==
    /\ UNCHANGED parseVars
    /\ wpc = "transfer"
    /\ transfer_recv
    /\ TransferReturns
    /\ UNCHANGED <<devTicks, devLog, dbToken, dbDives, dcToken, sessNew, uiEnabled,
                   driverOk, parserOk, devs, drvFound, nbytes, wToken, runSent, nParsed>>

\* start: drv.transfer in its framing loop
WTransferSplit ==
    /\ UNCHANGED parseVars
    /\ wpc = "transfer"
    /\ transfer_split
    /\ TransferReturns
    /\ UNCHANGED <<devTicks, devLog, dbToken, dbDives, dcToken, sessNew, uiEnabled,
                   driverOk, parserOk, devs, drvFound, nbytes, wToken, runSent, nParsed>>

\* start: token = drv.issue_token()
WIssueToken ==
    /\ UNCHANGED parseVars
    /\ wpc = "issue_token"
    /\ issue_token
    /\ IF ret'.exc # "none"
       THEN Dies /\ UNCHANGED wToken
       ELSE wpc' = "disconnect" /\ wToken' = retToken'
    /\ UNCHANGED <<devTicks, devLog, dbToken, dbDives, dcToken, sessNew, uiEnabled,
                   driverOk, parserOk, devs, drvFound, nbytes, wDives, runSent, nParsed>>

\* start: drv.disconnect()
WDisconnect ==
    /\ UNCHANGED parseVars
    /\ wpc = "disconnect"
    /\ disconnect
    /\ wpc' = "parse"
    /\ UNCHANGED <<devTicks, devLog, dbToken, dbDives, dcToken, sessNew, uiEnabled,
                   driverOk, parserOk, devs, drvFound, nbytes, wDives, wToken, runSent,
                   nParsed>>

\* a loop over _dives that catches the exception and goes on to the next blob
ParseSkips == wDives' = Tail(wDives) /\ UNCHANGED <<sessNew, wpc>>

\* start: parser.parse or init_from_adapter raises within the loop over _dives
ParseFails == Dies /\ UNCHANGED <<sessNew, wDives>>

\* start: one pass of the loop over _dives.  parser.parse and init_from_adapter
\* return or raise; dive.computer = self._dc puts the new Dive into the session
\* of self._dc through the backref of DiveComputer.dives
WParse ==
    /\ UNCHANGED parseVars
    /\ wpc = "parse"
    /\ wDives # <<>>
    /\ IF ~parserOk
       THEN \* parser and adapter_cls are not bound
            Dies /\ UNCHANGED <<sessNew, wDives, nParsed>>
       ELSE /\ nParsed' = nParsed + 1
            /\ \/ ParseFails
               \/ /\ sessNew' = sessNew \cup {BlobTime(Head(wDives))}
                  /\ wDives' = Tail(wDives)
                  /\ UNCHANGED wpc
    /\ UNCHANGED <<devVars, drvVars, xferVars, obsVars, dbToken, dbDives, dcToken,
                   uiEnabled, driverOk, parserOk, devs, drvFound, nbytes, wToken,
                   runSent>>

\* start: self._dc.token = token and finished.emit()
WFinish ==
    /\ UNCHANGED parseVars
    /\ wpc = "parse"
    /\ wDives = <<>>
    /\ dcToken' = wToken
    /\ wpc' = "finished"
    /\ UNCHANGED <<devVars, drvVars, xferVars, obsVars, dbToken, dbDives, sessNew,
                   uiEnabled, driverOk, parserOk, devs, drvFound, nbytes, wDives,
                   wToken, runSent, nParsed>>

\* TransferPanel._transferFinished: session.commit() and the buttons
_transferFinished ==
    /\ UNCHANGED parseVars
    /\ wpc = "finished"
    /\ dbToken' = dcToken
    /\ dbDives' = dbDives \cup sessNew
    /\ sessNew' = {}
    /\ uiEnabled' = TRUE
    /\ wpc' = "idle"
    /\ UNCHANGED <<devVars, drvVars, xferVars, obsVars, dcToken, driverOk, parserOk,
                   devs, drvFound, nbytes, wDives, wToken, runSent, nParsed>>

\* the program is closed and started again: the process, its session and its
\* socket are gone, the logbook file is read anew
Restart ==
    /\ UNCHANGED parseVars
    /\ wpc # "idle"
    /\ dcToken' = dbToken
    /\ sessNew' = {}
    /\ uiEnabled' = TRUE
    /\ wpc' = "idle"
    /\ __init__
    /\ tpc' = "idle" /\ progressObj' = "None" /\ num' = 0 /\ data' = <<>>
    /\ devBuf' = <<>>
    /\ driverOk' = FALSE /\ parserOk' = FALSE /\ devs' = <<>> /\ drvFound' = FALSE
    /\ nbytes' = 0 /\ wDives' = <<>> /\ wToken' = NoneStr /\ runSent' = {}
    /\ nParsed' = 0
    /\ UNCHANGED <<devTicks, devLog, dbToken, dbDives>>

Next ==
    \/ BtnTransferClicked
    \/ WLoad
    \/ WDiscover
    \/ WNewDriver
    \/ WConnect
    \/ WDisconnectOther
    \/ WSetToken
    \/ WGetBytecount
    \/ WTransfer
    \/ WTransferRecv
    \/ WTransferSplit
    \/ WIssueToken
    \/ WDisconnect
    \/ WParse
    \/ WFinish
    \/ _transferFinished
    \/ Restart
    \/ Tick
    \/ LogDive

Spec == Init /\ [][Next]_vars

----------------------------------------------------------------------------
(* Properties *)

\* C1: the stored token changes only in a run in which every dive the device
\* streamed was received, framed, parsed and handed to storage: when the token in
\* the logbook file changes, the dives of the run are committed with it; when the
\* token of the loaded DiveComputer changes, they are in the session; and no dive
\* of the device lies at or before the committed token without being committed
C1_TokenOnlyAfterStore ==
    /\ [][/\ (dbToken' # dbToken => runSent \subseteq dbDives')
          /\ (dcToken' \notin {dcToken, dbToken}
                => runSent \subseteq (sessNew' \cup dbDives'))]_vars
    /\ [](\A ts \in devLog : ts <= Long(OrZero(dbToken)) => ts \in dbDives)

\* a run that streamed two dives has committed them and a token
C1_Witness ==
    /\ wpc = "idle"
    /\ dbToken # NoneStr
    /\ Cardinality(runSent) = 2
    /\ runSent \subseteq dbDives

\* C2: in the receive loop every recv is asked for min(outstanding, CHUNK_SIZE)
\* bytes, the outstanding count is never negative and is n less the bytes
\* received, and the loop is left for the framing loop exactly with n bytes
C2_ReadsExactlyN ==
    /\ tpc \in {"recv", "split"} =>
          /\ xn > 0
          /\ nb = xn + 4
          /\ num >= 0
          /\ num + Len(data) = xn
          /\ data = SubSeq(devBuf, 1, Len(data))
          /\ (num = 0) = (tpc = "split")
          /\ request > 0 =>
                /\ request = Min(num + got, CHUNK_SIZE)
                /\ request <= CHUNK_SIZE
                /\ got <= request
    /\ tpc = "split" => Len(data) = xn

\* two dives have been received, the last recv asked for less than a chunk
C2_Witness ==
    /\ tpc = "split"
    /\ xn = 2 * DiveLen
    /\ Len(data) = xn
    /\ request < CHUNK_SIZE
    /\ got = request

\* C3: once a recv of the receive loop has returned '' with bytes outstanding,
\* transfer is not running any more and has raised an error
C3_EarlyEndFails ==
    (ret.op = "transfer" /\ request > 0 /\ got = 0)
        => (tpc = "idle" /\ ret.exc \notin {"none", "running"})

\* C4: with a progress object that has an update method, update is called once
\* after every recv with the length of the buffer, the values never decrease, and
\* the last value is n
C4_ProgressIsTotal ==
    /\ []((HasUpdate(progressObj) /\ tpc \in {"recv", "split"} /\ request > 0)
            => reported = <<Len(data)>>)
    /\ []((HasUpdate(progressObj) /\ tpc = "split") => reported = <<xn>>)
    /\ [][(tpc = "recv" /\ tpc' # "idle" /\ reported # <<>>)
            => (Len(reported') = 1 /\ reported'[1] >= reported[1])]_vars

\* the receive loop is left after more than one chunk, the last update was n
C4_Witness ==
    /\ tpc = "split"
    /\ progressObj = "Reporter"
    /\ xn > CHUNK_SIZE
    /\ got < xn
    /\ reported = <<xn>>

\* C5: transfer goes on to the receive loop only if the echoed count is n + 4;
\* with another count it raises, and no recv of the receive loop was made, update
\* was not called and no dives were returned
C5_CountMismatch ==
    /\ (ret.op = "transfer" /\ nb # NoneInt /\ nb # xn + 4) =>
          /\ ret.exc = "RuntimeError"
          /\ tpc = "idle"
          /\ request = 0
          /\ got = 0
          /\ reported = <<>>
          /\ retDives = <<>>
          /\ data = <<>>
          /\ ~framed
    /\ (ret.op = "transfer" /\ (tpc # "idle" \/ framed)) => nb = xn + 4

\* the device echoed n in place of n + 4 and transfer raised
C5_Witness ==
    /\ ret = [op |-> "transfer", exc |-> "RuntimeError"]
    /\ xn > 0
    /\ nb = xn
    /\ sent = <<CountCmd, TransferCmd>>

\* C6: when the byte count is 0, transfer returns an empty list, having sent the
\* byte count command alone, made no recv of the receive loop, called no update
\* and run no framing loop; the worker then parses nothing and issue_token
\* returns the tick count the device sent in connect
C6_NothingToTransfer ==
    /\ (wpc = "issue_token" /\ xn = 0) =>
          /\ ret = [op |-> "transfer", exc |-> "none"]
          /\ nbytes = 0
          /\ sent = <<CountCmd>>
          /\ \A i \in 1..Len(sent) : sent[i][1] # OpTransfer
          /\ request = 0
          /\ reported = <<>>
          /\ ~framed
          /\ retDives = <<>>
          /\ wDives = <<>>
    /\ (wpc = "issue_token" /\ nbytes = 0) => xn = 0
    /\ (wpc \in {"disconnect", "parse", "finished"} /\ drvFound /\ nbytes = 0) =>
          /\ wToken = FormatD(tickReply)
          /\ Long(wToken) = tickReply
          /\ wDives = <<>>
          /\ nParsed = 0
          /\ sessNew = {}

\* a run that found no dive past the token of an earlier run ends with the tick
\* count of its connect as the new token
C6_Witness ==
    /\ wpc = "finished"
    /\ drvFound
    /\ nbytes = 0
    /\ devLog # {}
    /\ _token > 0
    /\ dcToken = FormatD(tickReply)

\* C7: get_bytecount leaves the token, the tick count, the model, the serial
\* number and the connection of the driver as they are, and the byte count
\* command and the transfer command carry the same token: the current one, or 0
C7_BytecountPure ==
    /\ [][ret'.op = "get_bytecount"
            => UNCHANGED <<_token, _ticks, _model, _parser, _serial, _socket, _addr>>]_vars
    /\ []((ret.op \in {"get_bytecount", "transfer"} /\ sent # <<>>) =>
            /\ sent[1] = <<OpCount>> \o PackL(TokenOrZero) \o CmdSuffix
            /\ CmdToken(sent[1]) = TokenOrZero
            /\ Len(sent) = 2 =>
                  /\ sent[2] = <<OpTransfer>> \o PackL(TokenOrZero) \o CmdSuffix
                  /\ CmdToken(sent[2]) = CmdToken(sent[1]))

\* get_bytecount has returned a count for a token that was set
C7_Witness ==
    /\ ret = [op |-> "get_bytecount", exc |-> "none"]
    /\ _token > 0
    /\ _ticks # NoneInt
    /\ _token # _ticks
    /\ retCount > 0

\* C8: issue_token returns the tick count the device sent in connect, whatever
\* token was set and whatever was transferred, and the tick count of the driver
\* stays the one of connect
C8_TokenIsTicks ==
    /\ (ret = [op |-> "issue_token", exc |-> "none"]) =>
          /\ retToken = FormatD(tickReply)
          /\ Long(retToken) = tickReply
    /\ _ticks # NoneInt => _ticks = tickReply

\* issue_token has returned after the device clock moved on and another token
\* was set
C8_Witness ==
    /\ ret = [op |-> "issue_token", exc |-> "none"]
    /\ _token > 0
    /\ _token # _ticks
    /\ devTicks > tickReply
    /\ Long(retToken) = tickReply

\* C9: the token committed in the logbook file never decreases
C9_TokenMonotonic ==
    [][Long(OrZero(dbToken')) >= Long(OrZero(dbToken))]_vars

\* a run that was given the token of an earlier run has committed a greater one
C9_Witness ==
    /\ wpc = "idle"
    /\ _token > 0
    /\ dbToken # NoneStr
    /\ Long(dbToken) > _token

\* C10: connect sends the probe and the 5-byte command; if one of the two
\* replies is not 0x01 it raises IOError, having sent no identification command
\* and leaving model, serial number and tick count unset; the identification
\* commands are sent only after two replies 0x01
C10_HandshakeFailed ==
    /\ (ret.op = "connect" /\ Len(hsReply) = 2
          /\ (hsReply[1] # <<1>> \/ hsReply[2] # <<1>>)) =>
          /\ ret.exc = "IOError"
          /\ sent = <<CmdProbe, CmdHello>>
          /\ _model = "None"
          /\ _parser = "None"
          /\ _serial = NoneInt
          /\ _ticks = NoneInt
    /\ (ret.op = "connect" /\ Len(sent) > 2) =>
          /\ hsReply = <<(<<1>>), (<<1>>)>>
          /\ SubSeq(sent, 1, 2) = <<CmdProbe, CmdHello>>
    /\ (ret = [op |-> "connect", exc |-> "IOError"]) => Len(sent) = 2

\* the probe was acknowledged, the 5-byte command was not, connect raised
C10_Witness ==
    /\ ret = [op |-> "connect", exc |-> "IOError"]
    /\ hsReply = <<(<<1>>), (<<0>>)>>
    /\ sent = <<CmdProbe, CmdHello>>
    /\ _socket = "connected"

\* C11: after a connect, get_bytecount or transfer call that raised, a
\* get_bytecount or transfer call sends no command to the device and returns no
\* dives
C11_ErrorIsFinal ==
    [][(/\ ret.op \in {"connect", "get_bytecount", "transfer"}
        /\ ret.exc \notin {"none", "running"}
        /\ ret'.op \in {"get_bytecount", "transfer"}
        /\ obsVars' # obsVars)
          => (sent' = <<>> /\ retDives' = <<>>)]_vars

\* C12: disconnect raises nothing and leaves the driver without socket and
\* address; a disconnect after a disconnect changes no field of the driver and
\* does not close again, and a socket is closed only by the call that drops it
C12_DisconnectIdempotent ==
    /\ [](ret.op = "disconnect" =>
            /\ ret.exc = "none"
            /\ _socket = "None"
            /\ closes = 1 => _addr = "None"
            /\ sent = <<>>)
    /\ [][(ret.op = "disconnect" /\ ret'.op = "disconnect" /\ closes' # closes)
            => (closes' = 0 /\ UNCHANGED drvVars)]_vars
    /\ [][(closes' = 1 /\ closes = 0) => (_socket # "None" /\ _socket' = "None")]_vars

\* disconnect was called again on a driver that had been connected
C12_Witness ==
    /\ ret = [op |-> "disconnect", exc |-> "none"]
    /\ closes = 0
    /\ _socket = "None"
    /\ _serial # NoneInt

\* C13: the framing loop run on the concatenation of k frames returns those k
\* frames, byte for byte and in buffer order, so that the blobs put together are
\* the buffer
C13_SplitValidFrames ==
    [][tpc = "split" =>
         \A fs \in SeqsUpTo(ValidFrames, MaxPieces) :
            data = Concat(fs) =>
               /\ ret'.exc = "none"
               /\ Len(retDives') = Len(fs)
               /\ retDives' = fs
               /\ Concat(retDives') = data]_vars

\* three frames were returned, of two lengths, one with marker bytes as payload
C13_Witness ==
    /\ ret = [op |-> "transfer", exc |-> "none"]
    /\ framed
    /\ Len(retDives) = 3
    /\ retDives[1] = Frame(1, 165)
    /\ retDives[2] = Frame(2, 7)
    /\ retDives[3] = Frame(1, 7)

\* C14: when, walking the buffer frame by frame, a boundary is reached at which
\* the next 4 bytes are not the marker, or a frame whose length field runs past
\* the end of the buffer, the framing loop raises and returns no blob
C14_FramingFailureAborts ==
    [][tpc = "split" =>
         LET RECURSIVE Fails(_)
             Fails(pos) ==
                 IF pos + 4 > Len(data) THEN FALSE
                 ELSE IF SubSeq(data, pos + 1, pos + 4) # _hdr THEN TRUE
                 ELSE IF pos + 8 > Len(data) THEN FALSE
                 ELSE LET len == UnpackL(data, pos + 4)
                      IN  IF pos + len > Len(data) THEN TRUE
                          ELSE IF len = 0 THEN FALSE
                          ELSE Fails(pos + len)
         IN  Fails(0) => (ret'.exc # "none" /\ retDives' = <<>>)]_vars

\* C15: every blob the framing loop returns is longer than the 8 bytes of marker
\* and length, and as long as its length field says
C15_BlobLongerThanHeader ==
    (ret = [op |-> "transfer", exc |-> "none"] /\ framed) =>
        \A i \in 1..Len(retDives) :
            /\ Len(retDives[i]) > 8
            /\ UnpackL(retDives[i], 4) = Len(retDives[i])

\* C16: parse first requires the blob to hold at least 116 bytes and then the
\* length field at offset 4 to equal the length of the blob; when either test
\* fails a ParseError is raised, no header field is read and parse_profile is
\* not called, and when both pass the header is read and the profile decoded
C16_BlobLengthChecked ==
    ppc = "done" =>
        IF Len(pdata) < HeaderLen \/ UnpackL(pdata, 4) # Len(pdata)
        THEN pres.exc = "ParseError" /\ ~pres.header /\ ~pres.decoded
             /\ pres.profile = <<>> /\ pres.selected = <<>>
        ELSE pres.header /\ pres.decoded /\ pres.date = UnpackL(pdata, 8)

\* parse has refused a blob of a header and a profile whose length field is one
\* less than its length
C16_Witness ==
    /\ ppc = "done"
    /\ Len(pdata) > HeaderLen
    /\ UnpackL(pdata, 4) = Len(pdata) - 1
    /\ pres.exc = "ParseError"
    /\ ~pres.decoded

\* C17: a record whose DTI has as many 1 bits as DTI_TABLE has entries, or more,
\* and a record with no 0 bit in 16 bytes make parse_profile fail with a
\* ParseError, and no table entry is taken for such a record
C17_UnknownDtiIsParseError ==
    (ppc = "done" /\ pres.decoded) =>
        LET d  == Slice(pdata, HeaderLen, Len(pdata))
            id == smart_dti_identify(d, pres.stop, 0)
        IN  /\ \A i \in 1..Len(pres.selected) :
                  pres.selected[i].idx \in 0..(Len(DTI_TABLE) - 1)
            /\ (/\ pres.stop < Len(d)
                /\ id.exc = "none"
                /\ (id.n >= Len(DTI_TABLE) \/ id.n = -1))
               => pres.exc = "ParseError"

\* C18: when the profile ends inside a record (in the bytes of its DTI, before
\* the byte with its type bits or before the last of its extra bytes), parse
\* fails with a ParseError and returns no profile
C18_PartialRecordIsParseError ==
    (ppc = "done" /\ pres.decoded) =>
        LET d    == Slice(pdata, HeaderLen, Len(pdata))
            id   == smart_dti_identify(d, pres.stop, 0)
            need == LET dti == DTI_TABLE[id.n + 1]
                    IN  ((dti.bits + 7) \div 8) + dti.extra
        IN  (/\ pres.stop < Len(d)
             /\ \/ id.exc = "struct.error"
                \/ /\ id.exc = "none"
                   /\ id.n \in 0..(Len(DTI_TABLE) - 1)
                   /\ pres.stop + need > Len(d))
            => pres.exc = "ParseError" /\ pres.profile = <<>>

\* C19: a profile of one absolute depth record, one absolute temperature record
\* and one time record of value 1 decodes to exactly one waypoint, of depth 0
\* and of the temperature of the record
C19_AllAbsoluteOneWaypoint ==
    (/\ ppc = "done"
     /\ Len(pdata) >= HeaderLen
     /\ Slice(pdata, HeaderLen, Len(pdata)) = <<252, 0, 100, 254, 0, 5, 193>>)
    => /\ pres.exc = "none"
       /\ Len(pres.profile) = 1
       /\ pres.profile[1].has = {"depth", "temp"}
       /\ pres.profile[1].depth = 0
       /\ pres.profile[1].temp = 5 * 4

\* C20: two time records in a row, of values a then b, add a + b entries to the
\* profile, and entry i of a profile, counted from 0, has time 4 * i
C20_TimeRecordsEmit ==
    ppc = "done" =>
        LET d   == Slice(pdata, HeaderLen, Len(pdata))
            sel == pres.selected
            val(i)    == d[sel[i].pos + 1] % 32
            before(i) == IF i = 1 THEN 0 ELSE sel[i - 1].count
        IN  /\ \A i \in 1..Len(pres.work) : pres.work[i].time = 4 * (i - 1)
            /\ pres.exc = "none" => pres.profile = pres.work
            /\ \A i \in 1..(Len(sel) - 1) :
                  (/\ DTI_TABLE[sel[i].at].name = "time"
                   /\ DTI_TABLE[sel[i + 1].at].name = "time"
                   /\ sel[i + 1].applied)
                  => sel[i + 1].count - before(i) = val(i) + val(i + 1)

\* a time record of value 2 and one of value 1 have made a profile of three
\* entries
C20_Witness ==
    /\ ppc = "done"
    /\ pres.exc = "none"
    /\ Len(pdata) = HeaderLen + 2
    /\ pdata[HeaderLen + 1] = 194
    /\ pdata[HeaderLen + 2] = 193
    /\ Len(pres.profile) = 3
    /\ pres.profile[3].time = 8

\* C21: when an alarm record of group g sets bit m and a later alarm record of
\* group g clears it, the name of that alarm is in no entry appended to the
\* profile after the clearing record (up to the next alarm record of group g),
\* and the entries appended before the clearing record are those that the
\* records before it made
C21_ClearedAlarmAbsent ==
    (ppc = "done" /\ pres.decoded) =>
        LET d   == Slice(pdata, HeaderLen, Len(pdata))
            sel == pres.selected
            isAlarm(i, g) == DTI_TABLE[sel[i].at].name = "alarms"
                             /\ DTI_TABLE[sel[i].at].idx = g
            bit(v, m)     == (v \div m) % 2 = 1
            before(i)     == IF i = 1 THEN 0 ELSE sel[i - 1].count
            \* the record that appended entry w
            by(w) == CHOOSE l \in 1..Len(sel) : before(l) < w /\ w <= sel[l].count
        IN  \A i, j \in 1..Len(sel) : \A g \in {0, 1} : \A m \in {1, 2, 4, 8} :
              (/\ i < j /\ isAlarm(i, g) /\ isAlarm(j, g) /\ sel[j].applied
               /\ bit(sel[i].value, m) /\ ~bit(sel[j].value, m))
              => /\ \A w \in (sel[j].count + 1)..Len(pres.work) :
                      (\A l \in (j + 1)..(by(w) - 1) : ~isAlarm(l, g))
                      => \A k \in 1..Len(pres.work[w].alarms) :
                            pres.work[w].alarms[k] # alarm_name(g, m, 1)
                 /\ SubSeq(pres.work, 1, before(j))
                      = parse_profile(SubSeq(d, 1, sel[j].pos), StateInit).work

\* C22: once the first absolute depth record of a profile has been applied, cal
\* is twice its value (also when that value is 0), no later record changes cal,
\* and every entry appended from then on has depth = the depth of the state
\* that made it - twice that first value
C22_CalibrationSetOnce ==
    (ppc = "done" /\ pres.decoded) =>
        LET sel == pres.selected
            absDepth(i) == DTI_TABLE[sel[i].at].name = "depth" /\ DTI_TABLE[sel[i].at].abs
            before(i)   == IF i = 1 THEN 0 ELSE sel[i - 1].count
        IN  \A j \in 1..Len(sel) :
              (absDepth(j) /\ sel[j].applied /\ \A i \in 1..(j - 1) : ~absDepth(i))
              => \A l \in j..Len(sel) :
                    sel[l].applied
                    => /\ sel[l].st.cal = 2 * sel[j].value
                       /\ \A w \in (before(l) + 1)..sel[l].count :
                             /\ "depth" \in pres.work[w].has
                             /\ pres.work[w].depth = sel[l].st.depth - 2 * sel[j].value

\* C23: whatever the earlier calls of parse left in the parser object, parse of
\* a blob does what parse of that blob does on a new object: the same
\* exception, header and profile, with times from 0 and no alarm, depth,
\* temperature or calibration of an earlier blob
C23_DecodeIsFresh ==
    [][(ppc = "called" /\ ppc' = "done")
       => /\ pres' = parse(NoState, pdata)
          /\ pres'.work # <<>> => pres'.work[1].time = 0
          /\ \A i \in 1..Len(pres'.selected) :
                pres'.selected[i].st.time = 4 * pres'.selected[i].count]_vars

\* a second call of parse has returned a profile on an object in which the
\* first call had left a time, an alarm and a calibration
C23_Witness ==
    /\ ppc = "done"
    /\ pcalls = 2
    /\ pres.exc = "none"
    /\ Len(pres.profile) = 1
    /\ pres.profile[1].time = 0
    /\ pres.profile[1].has = {"depth"}
    /\ pstate.alarms = <<>>

\* C24: for a tick count t the date with UTC offset 0 is t/2 seconds, rounded
\* down, after 2000-01-01 00:00:00, and with UTC offset o it is o * 900 seconds
\* later than that, both from smart_ticks_to_datetime and from the adapter
C24_TicksToDatetime ==
    fpc = "done" =>
        /\ fin.ticks - 2 * fout.zero \in {0, 1}
        /\ fout.date = fout.zero
        /\ fout.direct - fout.zero = fin.utc_offset * 900
        /\ fout.adapter - fout.zero = fin.utc_offset * 900

\* an odd tick count with an offset of one hour west has been converted
C24_Witness ==
    /\ fpc = "done"
    /\ fin.ticks = 3
    /\ fin.utc_offset = -4
    /\ fout.zero = 1
    /\ fout.direct = 1 - 3600
    /\ fout.adapter = 1 - 3600

\* C25: for a width w of 1..32 and a signed integer v of w bits, the signed
\* value process_dti makes of the low w bits of v is v
C25_SignExtendRoundTrip ==
    fpc = "done" =>
        /\ fout.svalue = fin.v
        /\ \A i \in (fin.w + 1)..32 : fout.value[i] = 0

\* the least integer of 32 bits has been read back from its 32 bits
C25_Witness ==
    /\ fpc = "done"
    /\ fin.w = 32
    /\ fin.v = Lo(32)
    /\ fout.value[32] = 1
    /\ fout.svalue = fin.v

\* C26: after an alarm record of group g with value v the alarms of group g in
\* self._state.alarms are the set bits of v, each once, and the alarms of the
\* other groups are those that were there before the record
C26_AlarmsAreBitsOfValue ==
    (ppc = "done" /\ pres.decoded) =>
        LET sel == pres.selected
            bit(v, m)  == (v \div m) % 2 = 1
            at(list, g, m) == {k \in 1..Len(list) : list[k].idx = g /\ list[k].mask = m}
        IN  \A j \in 1..Len(sel) :
              (DTI_TABLE[sel[j].at].name = "alarms" /\ sel[j].applied)
              => LET g     == DTI_TABLE[sel[j].at].idx
                     after == sel[j].st.alarms
                     prev  == IF j = 1 THEN <<>> ELSE sel[j - 1].st.alarms
                 IN  /\ \A m \in {1, 2, 4, 8, 16, 32, 64} :
                           Cardinality(at(after, g, m)) = IF bit(sel[j].value, m) THEN 1 ELSE 0
                     /\ SelectSeq(after, LAMBDA a : a.idx # g)
                          = SelectSeq(prev, LAMBDA a : a.idx # g)

\* C27: a depth record, absolute or delta, adds one entry to the profile, a
\* time record of value t adds t, a temperature or alarm record adds none, and
\* after each record self._state.complete is 0; a profile returned has as many
\* entries as the records added
C27_SamplesPerRecord ==
    (ppc = "done" /\ pres.decoded) =>
        LET sel == pres.selected
            before(i)  == IF i = 1 THEN 0 ELSE sel[i - 1].count
            due(i)     == LET name == DTI_TABLE[sel[i].at].name
                          IN  IF name = "depth" THEN 1
                              ELSE IF name = "time" THEN sel[i].value
                              ELSE 0
        IN  /\ \A i \in 1..Len(sel) :
                  /\ sel[i].st.complete = 0
                  /\ sel[i].count - before(i) = IF sel[i].applied THEN due(i) ELSE 0
            /\ Len(pres.work) = IF sel = <<>> THEN 0 ELSE sel[Len(sel)].count
            /\ pres.exc = "none" => pres.profile = pres.work

\* a delta depth record, an alarm record and a time record of value 2 have
\* made a profile of three entries
C27_Witness ==
    /\ ppc = "done"
    /\ pres.exc = "none"
    /\ Slice(pdata, HeaderLen, Len(pdata)) = <<2, 226, 194>>
    /\ Len(pres.profile) = 3
    /\ pres.selected[1].count = 1
    /\ pres.selected[2].count = 1
    /\ pres.selected[3].count = 3

\* C28: an entry of the profile is made of the state as it is when the entry is
\* appended: it has 'temp' exactly when an absolute temperature record (the
\* record that marks a temperature as seen) was applied before, 'depth' exactly
\* when an absolute depth record was, 'alarms' exactly when self._state.alarms
\* is not empty, with the values of that state; the records applied later
\* leave it as it was
C28_EntryOfStateAtFlush ==
    (ppc = "done" /\ pres.decoded) =>
        LET sel == pres.selected
            before(i) == IF i = 1 THEN 0 ELSE sel[i - 1].count
            by(w)     == CHOOSE l \in 1..Len(sel) : before(l) < w /\ w <= sel[l].count
            seen(name, l) == \E i \in 1..l : /\ sel[i].applied
                                             /\ DTI_TABLE[sel[i].at].name = name
                                             /\ DTI_TABLE[sel[i].at].abs
        IN  \A w \in 1..Len(pres.work) :
              LET e  == pres.work[w]
                  st == sel[by(w)].st
              IN  /\ "temp" \in e.has <=> seen("temp", by(w))
                  /\ "depth" \in e.has <=> seen("depth", by(w))
                  /\ "alarms" \in e.has <=> st.alarms # <<>>
                  /\ "temp" \in e.has => e.temp = st.temp
                  /\ "depth" \in e.has => e.depth = st.depth - st.cal
                  /\ e.alarms = [k \in 1..Len(st.alarms) |-> st.alarms[k].name]

\* the entry a delta depth record made before any absolute record has neither
\* 'depth' nor 'temp', and the entry made after an absolute temperature record
\* has 'temp'
C28_Witness ==
    /\ ppc = "done"
    /\ pres.exc = "none"
    /\ Slice(pdata, HeaderLen, Len(pdata)) = <<2, 254, 0, 5, 193>>
    /\ Len(pres.profile) = 2
    /\ pres.profile[1].has = {}
    /\ pres.profile[2].has = {"temp"}
    /\ pres.profile[2].temp = 20

\* C29: the framing loop comes to its end on every buffer: a pass that takes a
\* frame moves _pos forward by the length of the frame, which is 1 or more, and
\* when fewer than 4 bytes are left after the last frame transfer returns the
\* frames taken, without an error and without the bytes left
C29_SplitTerminates ==
    /\ <>(tpc = "idle")
    /\ [][(tpc = "split" /\ tpc' = "split")
          => /\ _pos' > _pos
             /\ _pos' <= Len(data)
             /\ dives' = Append(dives, Slice(data, _pos, _pos'))]_vars
    /\ [][(tpc = "split" /\ Len(data) - _pos < 4)
          => /\ tpc' = "idle"
             /\ ret' = [op |-> "transfer", exc |-> "none"]
             /\ retDives' = dives]_vars

\* the loop has taken two frames and two bytes are left
C29_Witness ==
    /\ tpc = "split"
    /\ Len(dives) = 2
    /\ _pos = Len(dives[1]) + Len(dives[2])
    /\ Len(data) - _pos = 2

\* C30: parse_profile comes to its end on every profile, by returning when
\* _pos has reached the end of the data or by raising: each record for which a
\* table entry was taken and parse_dti reached moves _pos forward by the bytes
\* of the entry (the bytes of its DTI and its extra bytes), which are 1 or
\* more; the loop that appends entries leaves complete at 0; and a profile is
\* returned only when every byte has been read
C30_ProfileLoopAdvances ==
    (ppc = "done" /\ pres.decoded) =>
        LET d   == Slice(pdata, HeaderLen, Len(pdata))
            sel == pres.selected
            need(i) == LET dti == DTI_TABLE[sel[i].at]
                       IN  ((dti.bits + 7) \div 8) + dti.extra
        IN  /\ \A i \in 1..Len(sel) :
                  /\ sel[i].pos = IF i = 1 THEN 0 ELSE sel[i - 1].next
                  /\ sel[i].applied => /\ need(i) >= 1
                                       /\ sel[i].next = sel[i].pos + need(i)
                                       /\ sel[i].next <= Len(d)
                  /\ ~sel[i].applied => i = Len(sel) /\ pres.exc # "none"
                  /\ sel[i].st.complete = 0
                  /\ sel[i].st.time = 4 * sel[i].count
            /\ pres.exc = "none" <=> pres.stop = Len(d)
            /\ pres.exc \in {"none", "ParseError", "IndexError", "struct.error"}

\* a profile of an absolute depth record, a delta depth record and an alarm
\* record of two bytes has been read to its end
C30_Witness ==
    /\ ppc = "done"
    /\ pres.exc = "none"
    /\ Slice(pdata, HeaderLen, Len(pdata)) = <<252, 0, 100, 2, 255, 2>>
    /\ pres.stop = 6
    /\ pres.selected[1].next = 3
    /\ pres.selected[2].next = 4
    /\ pres.selected[3].next = 6

====
